---- MODULE Spec2Model ----
(***************************************************************************)
(* State-machine model of the rag backend transport: the framed IPC        *)
(* connection handler (adapters/transport/server.py), the request router   *)
(* and its job stream (adapters/transport/handlers/router.py), the         *)
(* ingestion port that starts reindex jobs (handlers/ports.py), the query  *)
(* port (application/query_engine.py), the index consistency guard, the    *)
(* reindex orchestrator (application/reindex_service.py), the source       *)
(* catalog mutations (application/source_catalog.py) and the job recovery  *)
(* service (services/rag_backend/domain/job_recovery.py).                  *)
(***************************************************************************)
EXTENDS Integers, Sequences, FiniteSets, TLC

VARIABLES
    cstate,      \* per connection: "AWAIT_HANDSHAKE" | "SERVING" | "CLOSED"
    inp,         \* per connection: the wire items the handler has consumed, in order
    out,         \* per connection: the frames written to the client, in order
    closes,      \* per connection: number of writer.close() calls
    crashed,     \* per connection: an exception escaped _handle_connection
    dispatched,  \* per connection: indexes (into inp) of the frames handed to the Router
    catalog,     \* the catalog held by CatalogStorage
    config,      \* handler wiring: which optional ports/services are configured
    streams,     \* the _JobStream objects created so far, with their executor task
    loopReady,   \* the event loop's FIFO of callbacks scheduled with call_soon_threadsafe
    producer,    \* the orchestrator context feeding a job stream through its callbacks
    guardResult, \* outcome of the last consistency-guard evaluation
    codec,       \* one byte stream: what was written to it and what was read back
    handlers,    \* a TransportHandlers object: its shutdown hooks and the hooks run
    ingestion,   \* an ingestion job taken through SourceService transitions
    runs,        \* the ReindexService.run invocations: position, locals, calls made
    audit,       \* the entries appended to the audit log, in order
    saved,       \* the CatalogStorage.save calls made so far, in order
    recovery     \* a JobRecoveryService call: its arguments and what it returned

vars == <<cstate, inp, out, closes, crashed, dispatched, catalog, config,
          streams, loopReady, producer, guardResult, runs, audit, saved,
          recovery, codec, handlers, ingestion>>

orchVars == <<runs, audit, saved>>

svcVars == <<handlers, ingestion>>

connVars == <<cstate, inp, out, closes, crashed, dispatched>>

-----------------------------------------------------------------------------
(* Bounds                                                                  *)

\* frames read per connection (the handshake frame included)
MaxFrames == 3
\* snapshots an orchestrator passes to on_progress before it completes
MaxSnapshots == 3
\* sources / snapshots per catalog in the guard's input space
MaxSources == 2

-----------------------------------------------------------------------------
(* Values                                                                  *)

\* An absent key, or JSON null / a non-string where a string is expected:
\* what dict.get returns as None, or a value that fails isinstance(.., str).
NoValue == "<none>"

PROTOCOL_ID == "rag-cli-ipc"
PROTOCOL_VERSION == 1

Paths == {"/v1/query", "/v1/sources", "/v1/index/reindex",
          "/v1/admin/init", "/v1/admin/health"}

\* Request bodies: whether "question" is present, whether max_context_tokens
\* converts with int(), and the "trigger" value.
Body(question, tokensOk, trigger) ==
    [question |-> question, tokensOk |-> tokensOk, trigger |-> trigger]

EmptyBody == Body(FALSE, TRUE, NoValue)

\* A decoded JSON object frame.  version 0 stands for an absent version key.
Obj(type, protocol, version, cid, path, body) ==
    [shape |-> "object", type |-> type, protocol |-> protocol, version |-> version,
     correlation_id |-> cid, path |-> path, body |-> body]

\* A decoded JSON value that is not an object (a list, a number, a string).
NonObject ==
    [shape |-> "list", type |-> NoValue, protocol |-> NoValue, version |-> 0,
     correlation_id |-> NoValue, path |-> NoValue, body |-> EmptyBody]

\* What the client put on the wire for one frame attempt: the length line,
\* how many payload bytes follow, the byte after the payload, and the text
\* of the payload.
Wire(lengthLine, payload, trailing, text, frame) ==
    [lengthLine |-> lengthLine, payload |-> payload, trailing |-> trailing,
     text |-> text, frame |-> frame]

WellFormed(frame) == Wire("int", "full", "newline", "json", frame)

HandshakeFrames ==
    { Obj("handshake", PROTOCOL_ID, 1, "h1", NoValue, EmptyBody),
      Obj("handshake", PROTOCOL_ID, 1, NoValue, NoValue, EmptyBody),
      Obj("handshake", "other-ipc", 1, "h1", NoValue, EmptyBody),
      Obj("handshake", PROTOCOL_ID, 2, NoValue, NoValue, EmptyBody) }

RequestFrames ==
    { Obj("request", NoValue, 0, cid, "/v1/query", Body(TRUE, TRUE, NoValue)) :
        cid \in {"r1", "", NoValue} }
    \cup
    { Obj("request", NoValue, 0, "r2", "/v1/query", Body(FALSE, TRUE, NoValue)),
      Obj("request", NoValue, 0, "r2", "/v1/query", Body(TRUE, FALSE, NoValue)),
      Obj("request", NoValue, 0, "r2", "/v1/sources", EmptyBody),
      Obj("request", NoValue, 0, "r1", "/v1/index/reindex", Body(FALSE, TRUE, "manual")),
      Obj("request", NoValue, 0, "r1", "/v1/index/reindex", Body(FALSE, TRUE, "bogus")),
      Obj("request", NoValue, 0, "r2", "/v1/admin/init", EmptyBody),
      Obj("request", NoValue, 0, NoValue, "/v1/admin/health", EmptyBody),
      Obj("request", NoValue, 0, "r1", "/v1/unknown", EmptyBody),
      Obj("request", NoValue, 0, "r1", "", EmptyBody),
      Obj("request", NoValue, 0, NoValue, NoValue, EmptyBody),
      Obj("event", NoValue, 0, "r2", "/v1/query", EmptyBody) }

\* Frame attempts that do not decode to a JSON value.
BrokenWire ==
    { Wire("eof", "none", "none", "none", NonObject),        \* stream ends
      Wire("notint", "none", "none", "none", NonObject),      \* length line is no integer
      Wire("negative", "none", "none", "none", NonObject),    \* length line is "-1"
      Wire("int", "short", "none", "none", NonObject),        \* EOF inside the payload
      Wire("int", "full", "eof", "none", NonObject),          \* EOF instead of the sentinel
      Wire("int", "full", "other", "none", NonObject),        \* a byte other than newline
      Wire("int", "full", "newline", "badutf8", NonObject),   \* payload is not UTF-8
      Wire("int", "full", "newline", "badjson", NonObject) }  \* payload is not JSON

WireItems ==
    BrokenWire \cup { WellFormed(f) : f \in HandshakeFrames \cup RequestFrames }
               \cup { WellFormed(NonObject) }

-----------------------------------------------------------------------------
(* Framing codec: _read_frame                                              *)

\* kind "closed"   = TransportConnectionClosed
\* kind "protocol" = TransportProtocolError
\* kind "other"    = any other exception (ValueError from readexactly(-n),
\*                   asyncio.IncompleteReadError, UnicodeDecodeError)
\* kind "frame"    = the decoded JSON value is returned
ReadResult(kind, frame) == [kind |-> kind, frame |-> frame]

ReadFrame(w) ==
    IF w.lengthLine = "eof" THEN ReadResult("closed", NonObject)
    ELSE IF w.lengthLine = "notint" THEN ReadResult("protocol", NonObject)
    ELSE IF w.lengthLine = "negative" THEN ReadResult("other", NonObject)
    ELSE IF w.payload = "short" THEN ReadResult("other", NonObject)
    ELSE IF w.trailing = "eof" THEN ReadResult("other", NonObject)
    ELSE IF w.trailing # "newline" THEN ReadResult("protocol", NonObject)
    ELSE IF w.text = "badutf8" THEN ReadResult("other", NonObject)
    ELSE IF w.text = "badjson" THEN ReadResult("protocol", NonObject)
    ELSE ReadResult("frame", w.frame)

-----------------------------------------------------------------------------
(* Frames written by the server                                            *)

\* Mutant: the ack announces the version the client asked for plus one.
AckFrameNextVersion(i) ==
    [type |-> "handshake_ack", status |-> 0, correlation_id |-> NoValue,
     code |-> "", for |-> i,
     protocol |-> PROTOCOL_ID, version |-> PROTOCOL_VERSION + 1, server |-> "rag-backend"]

\* dict(HANDSHAKE_RESPONSE): the ack carries no correlation id.
\* for: index in inp of the frame being handled when this frame was written.
AckFrame(i) ==
    [type |-> "handshake_ack", status |-> 0, correlation_id |-> NoValue,
     code |-> "", for |-> i,
     protocol |-> PROTOCOL_ID, version |-> PROTOCOL_VERSION, server |-> "rag-backend"]

Response(status, cid, code, i) ==
    [type |-> "response", status |-> status, correlation_id |-> cid,
     code |-> code, for |-> i]

\* Mutant: only None falls back, an empty string is kept.
NormalizeKeepsEmpty(candidate, fallback) ==
    IF candidate # NoValue THEN candidate ELSE fallback

NormalizeCorrelationId(candidate, fallback) ==
    IF candidate # NoValue /\ candidate # "" THEN candidate ELSE fallback

\* uuid4 generated per connection; never collides with a client-chosen id
FallbackId(c) == "conn-" \o c

-----------------------------------------------------------------------------
(* Catalog and the index consistency guard: _ensure_index_current          *)

SourceRecord(alias, status, checksum) ==
    [alias |-> alias, status |-> status, checksum |-> checksum]

SourceSnapshot(alias, checksum) == [alias |-> alias, checksum |-> checksum]

SourceCatalog(version, sources, snapshots) ==
    [version |-> version, sources |-> sources, snapshots |-> snapshots]

IsActiveSource(source) == source.status = "active"

SeqRange(s) == { s[i] : i \in DOMAIN s }

\* {snapshot.alias for snapshot in catalog.snapshots}
SnapshotAliases(cat) == { cat.snapshots[i].alias : i \in DOMAIN cat.snapshots }

\* [source for source in catalog.sources if _is_active_source(source)]
ActiveSources(cat) == SelectSeq(cat.sources, IsActiveSource)

\* {snapshot.alias: snapshot.checksum for ...}: a later entry overwrites an
\* earlier one with the same alias.
SnapshotChecksums(cat) ==
    [a \in SnapshotAliases(cat) |->
        LET last == CHOOSE i \in DOMAIN cat.snapshots :
                       /\ cat.snapshots[i].alias = a
                       /\ \A j \in DOMAIN cat.snapshots :
                            cat.snapshots[j].alias = a => j <= i
        IN cat.snapshots[last].checksum]

\* The for-loop over the active sources, from position i on.
RECURSIVE ChecksumLoop(_, _, _)
ChecksumLoop(active, checksums, i) ==
    IF i > Len(active) THEN "PASS"
    ELSE IF active[i].checksum = NoValue THEN "INDEX_STALE"
    ELSE IF checksums[active[i].alias] # active[i].checksum THEN "INDEX_STALE"
    ELSE ChecksumLoop(active, checksums, i + 1)

\* Mutant: the duplicate-snapshot check is missing.
EnsureIndexCurrentNoDuplicateCheck(cat) ==
    IF cat.version <= 0 \/ cat.snapshots = << >> THEN "INDEX_MISSING"
    ELSE IF SnapshotAliases(cat) # { s.alias : s \in SeqRange(ActiveSources(cat)) }
         THEN "INDEX_STALE"
    ELSE ChecksumLoop(ActiveSources(cat), SnapshotChecksums(cat), 1)

\* "PASS" when the function returns, else the code of the IndexUnavailableError.
EnsureIndexCurrent(cat) ==
    IF cat.version <= 0 \/ cat.snapshots = << >> THEN "INDEX_MISSING"
    ELSE IF Cardinality(SnapshotAliases(cat)) # Len(cat.snapshots) THEN "INDEX_STALE"
    ELSE IF SnapshotAliases(cat) # { s.alias : s \in SeqRange(ActiveSources(cat)) }
         THEN "INDEX_STALE"
    ELSE ChecksumLoop(ActiveSources(cat), SnapshotChecksums(cat), 1)

-----------------------------------------------------------------------------
(* Request router: TransportHandlers.dispatch and its handlers             *)

\* What a handler call produces:
\*   "tuple"           a (status, payload) pair
\*   "transport_error" TransportError / IndexUnavailableError raised
\*   "exception"       any other exception raised
\*   "streaming"       a StreamingResponse object
Returned(status) == [kind |-> "tuple", status |-> status, code |-> ""]
Raised(status, code) == [kind |-> "transport_error", status |-> status, code |-> code]
Unexpected == [kind |-> "exception", status |-> 0, code |-> ""]
Streaming(status) == [kind |-> "streaming", status |-> status, code |-> ""]

\* Mutant: only the version is tested, a catalog without snapshots is queried.
QueryPortQueryVersionOnly(cat, fault) ==
    IF cat.version <= 0 THEN Raised(409, "INDEX_MISSING")
    ELSE IF fault THEN Unexpected
    ELSE Returned(200)

\* RetrievalLLMQueryPort.query reached through QueryRunnerPort / QueryRunner.run;
\* fault: the completion adapter raises.
QueryPortQuery(cat, fault) ==
    IF cat.version <= 0 \/ cat.snapshots = << >> THEN Raised(409, "INDEX_MISSING")
    ELSE IF fault THEN Unexpected
    ELSE Returned(200)

HandleQuery(body, cat, fault) ==
    IF ~body.question THEN Raised(400, "INVALID_REQUEST")
    ELSE IF ~body.tokensOk THEN Raised(400, "INVALID_REQUEST")
    ELSE LET r == QueryPortQuery(cat, fault)
         IN IF r.kind = "exception" THEN Raised(500, "QUERY_FAILED") ELSE r

\* fault: ingestion_port.list_sources raises.
HandleListSources(fault) == IF fault THEN Unexpected ELSE Returned(200)

Triggers == {"init", "manual", "scheduled"}

\* fault: start_reindex raises while loading the catalog.
HandleReindex(body, fault) ==
    LET trigger_value == IF body.trigger = NoValue THEN "manual" ELSE body.trigger
    IN IF trigger_value \notin Triggers THEN Raised(400, "INVALID_TRIGGER")
       ELSE IF fault THEN Unexpected
       ELSE Streaming(202)

HandleAdminInit(cat, fault) ==
    IF fault THEN Unexpected
    ELSE IF EnsureIndexCurrent(cat) # "PASS" THEN Raised(409, EnsureIndexCurrent(cat))
    ELSE Returned(200)

\* fault: health_port.evaluate raises.
HandleAdminHealth(cfg, fault) ==
    IF ~cfg.healthPort THEN Raised(503, "HEALTH_UNAVAILABLE")
    ELSE IF fault THEN Unexpected
    ELSE Returned(200)

Dispatch(path, body, cat, cfg, fault) ==
    IF path = "/v1/query" THEN HandleQuery(body, cat, fault)
    ELSE IF path = "/v1/sources" THEN HandleListSources(fault)
    ELSE IF path = "/v1/index/reindex" THEN HandleReindex(body, fault)
    ELSE IF path = "/v1/admin/init" THEN HandleAdminInit(cat, fault)
    ELSE IF path = "/v1/admin/health" THEN HandleAdminHealth(cfg, fault)
    ELSE Raised(404, "NOT_FOUND")

-----------------------------------------------------------------------------
(* Connection handler: _handle_connection                                  *)

\* What one pass of the handler does: the frames it writes, the state it
\* leaves the connection in, whether writer.close() ran, whether an exception
\* left the handler, and the Router outcome when the frame was dispatched.
NotDispatched == [kind |-> "none", status |-> 0, code |-> ""]

Step(frames, next, closed, crash, outcome) ==
    [frames |-> frames, next |-> next, closed |-> closed, crash |-> crash,
     outcome |-> outcome]

\* Mutant: the version comparison is missing.
HandshakeResponseIgnoresVersion(request) ==
    IF request.type # "handshake" THEN FALSE
    ELSE IF request.protocol # PROTOCOL_ID THEN FALSE
    ELSE TRUE

\* _handshake_response: TRUE when the ack is returned, FALSE when it raises
\* TransportProtocolError.
HandshakeResponse(request) ==
    IF request.type # "handshake" THEN FALSE
    ELSE IF request.protocol # PROTOCOL_ID THEN FALSE
    ELSE IF request.version # PROTOCOL_VERSION THEN FALSE
    ELSE TRUE

\* Lines 179-216: the handshake block.  No branch of it closes the writer.
HandshakeOutcome(w, fallback, i) ==
    LET r == ReadFrame(w)
    IN IF r.kind = "closed" THEN
           Step(<< >>, "CLOSED", FALSE, FALSE, NotDispatched)
       ELSE IF r.kind = "protocol" THEN
           Step(<<Response(400, fallback, "HANDSHAKE_ERROR", i)>>,
                "CLOSED", FALSE, FALSE, NotDispatched)
       ELSE IF r.kind = "other" \/ r.frame.shape # "object" THEN
           \* except Exception: also request.get on a non-dict (AttributeError)
           Step(<<Response(500, fallback, "HANDSHAKE_FAILURE", i)>>,
                "CLOSED", FALSE, FALSE, NotDispatched)
       ELSE IF HandshakeResponse(r.frame) THEN
           Step(<<AckFrame(i)>>, "SERVING", FALSE, FALSE, NotDispatched)
       ELSE
           Step(<<Response(400,
                           NormalizeCorrelationId(r.frame.correlation_id, fallback),
                           "HANDSHAKE_ERROR", i)>>,
                "CLOSED", FALSE, FALSE, NotDispatched)

\* The frame the serving loop writes for a Router outcome.  A StreamingResponse
\* does not unpack into (status, payload): the TypeError is caught by the
\* generic except clause like any other handler exception.
ServerResponse(o, correlation, i) ==
    IF o.kind = "tuple" THEN Response(o.status, correlation, "", i)
    ELSE IF o.kind = "transport_error" THEN Response(o.status, correlation, o.code, i)
    ELSE Response(500, correlation, "INTERNAL_ERROR", i)

\* Mutant: only the isinstance test, an empty path passes.
ValidPathAllowsEmpty(path_value) == path_value # NoValue

ValidPath(path_value) == path_value # NoValue /\ path_value # ""

\* Lines 218-322: one iteration of the serving loop, with the finally block
\* when the loop is left.
ServeOutcome(w, fallback, i, cat, cfg, fault) ==
    LET r == ReadFrame(w)
    IN IF r.kind = "closed" THEN
           Step(<< >>, "CLOSED", TRUE, FALSE, NotDispatched)
       ELSE IF r.kind = "protocol" THEN
           Step(<<Response(400, fallback, "INVALID_FRAME", i)>>,
                "SERVING", FALSE, FALSE, NotDispatched)
       ELSE IF r.kind = "other" \/ r.frame.shape # "object" THEN
           \* not caught inside the loop: the finally block closes the writer
           Step(<< >>, "CLOSED", TRUE, TRUE, NotDispatched)
       ELSE IF r.frame.type # "request" THEN
           Step(<<Response(400,
                           NormalizeCorrelationId(r.frame.correlation_id, fallback),
                           "INVALID_FRAME_TYPE", i)>>,
                "SERVING", FALSE, FALSE, NotDispatched)
       ELSE IF ~ValidPath(r.frame.path) THEN
           Step(<<Response(400,
                           NormalizeCorrelationId(r.frame.correlation_id, fallback),
                           "INVALID_PATH", i)>>,
                "SERVING", FALSE, FALSE, NotDispatched)
       ELSE
           LET correlation == NormalizeCorrelationId(r.frame.correlation_id, fallback)
               o == Dispatch(r.frame.path, r.frame.body, cat, cfg, fault)
           IN Step(<<ServerResponse(o, correlation, i)>>,
                   "SERVING", FALSE, FALSE, o)

-----------------------------------------------------------------------------
(* Job stream: _JobStream, and CatalogIngestionPort.start_reindex          *)

\* A serialized job snapshot; seq is the ordinal of the callback call that
\* carried it.  The sentinel is the None put on the queue by _complete.
JobSnapshot(seq, status) == [seq |-> seq, status |-> status]
Sentinel == [seq |-> 0, status |-> "<sentinel>"]

TerminalStatuses == {"succeeded", "failed"}

\* _JobStream.__init__ plus the bookkeeping of the request that created it:
\* exec is the state of the run_in_executor task ("none" when no task was
\* scheduled), delivered what __anext__ has returned, stopped whether it has
\* raised StopAsyncIteration.
NewStream(c, i, exec) ==
    [conn |-> c, for |-> i, initial_status |-> 202, queue |-> << >>,
     exec |-> exec, delivered |-> << >>, stopped |-> FALSE]

\* loop.call_soon_threadsafe(self._queue.put_nowait, payload)
CallSoonThreadsafe(ready, j, payload) ==
    Append(ready, [stream |-> j, item |-> payload])

\* _enqueue_progress(job)
EnqueueProgress(ready, j, job) == CallSoonThreadsafe(ready, j, job)

\* The event loop runs the oldest scheduled callback: queue.put_nowait(item).
LoopRunCallback ==
    /\ loopReady # << >>
    /\ LET cb == Head(loopReady)
       IN streams' = [streams EXCEPT ![cb.stream].queue = Append(@, cb.item)]
    /\ loopReady' = Tail(loopReady)
    /\ UNCHANGED <<connVars, catalog, config, producer, guardResult>>
    /\ UNCHANGED <<orchVars, recovery, codec, svcVars>>

\* The executor thread calls ReindexService.run(trigger, job_id=...,
\* force_rebuild=..., callbacks=...).  run() declares no force_rebuild
\* parameter, so the call raises TypeError before the body starts; the
\* exception stays in the future nobody awaits.
ExecutorRun(j) ==
    /\ streams[j].exec = "scheduled"
    /\ streams' = [streams EXCEPT ![j].exec = "raised"]
    /\ UNCHANGED <<connVars, catalog, config, loopReady, producer, guardResult>>
    /\ UNCHANGED <<orchVars, recovery, codec, svcVars>>

\* start_reindex, called from _handle_reindex with the new stream's callbacks:
\* on_progress(job) with the RUNNING snapshot, then the executor task when a
\* reindex service is configured (the handler runs inside the event loop).
StartReindex(c, i, cfg) ==
    LET j == Len(streams) + 1
    IN /\ streams' = Append(streams,
                            NewStream(c, i, IF cfg.reindexService
                                            THEN "scheduled" ELSE "none"))
       /\ loopReady' = EnqueueProgress(loopReady, j, JobSnapshot(1, "running"))

-----------------------------------------------------------------------------
(* Connection actions                                                      *)

\* The handler awaits the first frame of connection c and the client sends w.
Handshake(c, w) ==
    /\ cstate[c] = "AWAIT_HANDSHAKE"
    /\ LET i == Len(inp[c]) + 1
           s == HandshakeOutcome(w, FallbackId(c), i)
       IN /\ inp' = [inp EXCEPT ![c] = Append(@, w)]
          /\ out' = [out EXCEPT ![c] = @ \o s.frames]
          /\ cstate' = [cstate EXCEPT ![c] = s.next]
          /\ closes' = [closes EXCEPT ![c] = @ + (IF s.closed THEN 1 ELSE 0)]
          /\ crashed' = [crashed EXCEPT ![c] = s.crash]
    /\ UNCHANGED <<dispatched, catalog, config, streams, loopReady, producer,
                   guardResult>>
    /\ UNCHANGED <<orchVars, recovery, codec, svcVars>>

\* The serving loop of connection c reads its next frame attempt w; fault says
\* whether the collaborator behind the dispatched operation raises.
Serve(c, w, fault) ==
    /\ cstate[c] = "SERVING"
    /\ Len(inp[c]) < MaxFrames
    /\ LET i == Len(inp[c]) + 1
           s == ServeOutcome(w, FallbackId(c), i, catalog, config, fault)
       IN /\ inp' = [inp EXCEPT ![c] = Append(@, w)]
          /\ out' = [out EXCEPT ![c] = @ \o s.frames]
          /\ cstate' = [cstate EXCEPT ![c] = s.next]
          /\ closes' = [closes EXCEPT ![c] = @ + (IF s.closed THEN 1 ELSE 0)]
          /\ crashed' = [crashed EXCEPT ![c] = s.crash]
          /\ dispatched' = [dispatched EXCEPT ![c] =
                               IF s.outcome.kind = "none" THEN @ ELSE Append(@, i)]
          /\ IF s.outcome.kind = "streaming"
             THEN StartReindex(c, i, config)
             ELSE UNCHANGED <<streams, loopReady>>
    /\ UNCHANGED <<catalog, config, producer, guardResult>>
    /\ UNCHANGED <<orchVars, recovery, codec, svcVars>>

-----------------------------------------------------------------------------
(* Job stream producer and consumer                                        *)

\* The orchestrator context calls on_progress (ReindexService._emit_progress).
ProducerProgress ==
    /\ producer.pc = "running"
    /\ Len(producer.called) < MaxSnapshots
    /\ LET job == JobSnapshot(Len(producer.called) + 1, "running")
       IN /\ loopReady' = EnqueueProgress(loopReady, producer.stream, job)
          /\ producer' = [producer EXCEPT !.called = Append(@, job)]
    /\ UNCHANGED <<connVars, catalog, config, streams, guardResult>>
    /\ UNCHANGED <<orchVars, recovery, codec, svcVars>>

\* The orchestrator context calls on_complete (ReindexService._emit_completion):
\* first half of _complete, the terminal snapshot.
ProducerComplete(status) ==
    /\ producer.pc = "running"
    /\ LET job == JobSnapshot(Len(producer.called) + 1, status)
       IN /\ loopReady' = EnqueueProgress(loopReady, producer.stream, job)
          /\ producer' = [producer EXCEPT !.called = Append(@, job),
                                          !.pc = "completing"]
    /\ UNCHANGED <<connVars, catalog, config, streams, guardResult>>
    /\ UNCHANGED <<orchVars, recovery, codec, svcVars>>

\* Second half of _complete: the sentinel.
ProducerSentinel ==
    /\ producer.pc = "completing"
    /\ loopReady' = CallSoonThreadsafe(loopReady, producer.stream, Sentinel)
    /\ producer' = [producer EXCEPT !.pc = "done"]
    /\ UNCHANGED <<connVars, catalog, config, streams, guardResult>>
    /\ UNCHANGED <<orchVars, recovery, codec, svcVars>>

\* Mutant: the None test is missing, the sentinel is returned like a payload.
AnextResultReturnsSentinel(stream, payload) ==
    [stream EXCEPT !.queue = Tail(@), !.delivered = Append(@, payload)]

\* What __anext__ does with the item queue.get() returned.
AnextResult(stream, payload) ==
    IF payload = Sentinel
    THEN [stream EXCEPT !.queue = Tail(@), !.stopped = TRUE]
    ELSE [stream EXCEPT !.queue = Tail(@), !.delivered = Append(@, payload)]

\* The single consumer's async-for step: __anext__ on stream j.
Anext(j) ==
    /\ ~streams[j].stopped
    /\ streams[j].queue # << >>
    /\ streams' = [streams EXCEPT ![j] = AnextResult(@, Head(@.queue))]
    /\ UNCHANGED <<connVars, catalog, config, loopReady, producer, guardResult>>
    /\ UNCHANGED <<orchVars, recovery, codec, svcVars>>

-----------------------------------------------------------------------------
(* Consistency guard evaluation                                            *)

CheckGuard ==
    /\ guardResult = "unchecked"
    /\ guardResult' = EnsureIndexCurrent(catalog)
    /\ UNCHANGED <<connVars, catalog, config, streams, loopReady, producer>>
    /\ UNCHANGED <<orchVars, recovery, codec, svcVars>>

-----------------------------------------------------------------------------
(* Initial states                                                          *)

ConnIds == {"c1"}

NoProducer == [pc |-> "none", stream |-> 0, called |-> << >>]

\* Catalogs the handler can find in storage: none built yet, a source added
\* but never indexed, a current index, and a source whose content changed
\* after the last index build.
ServingCatalogs ==
    { SourceCatalog(0, << >>, << >>),
      SourceCatalog(1, <<SourceRecord("man-pages", "pending_validation", "sha-1")>>,
                 << >>),
      SourceCatalog(1, <<SourceRecord("man-pages", "active", "sha-1")>>,
                 <<SourceSnapshot("man-pages", "sha-1")>>),
      SourceCatalog(2, <<SourceRecord("man-pages", "active", "sha-2")>>,
                 <<SourceSnapshot("man-pages", "sha-1")>>) }

\* create_default_handlers wires a health port and no reindex service; a
\* directly constructed TransportHandlers has no health port and may carry a
\* CatalogIngestionPort with a reindex service.
Configs ==
    { [healthPort |-> TRUE, reindexService |-> FALSE],
      [healthPort |-> FALSE, reindexService |-> TRUE] }

\* No reindex run exists and nothing was audited or saved.
NoReindex ==
    /\ runs = << >>
    /\ audit = << >>
    /\ saved = << >>

\* No recovery call was made.
NoRecovery == [called |-> "none"]

\* a byte stream nothing was written to
NoCodec == [stream |-> << >>, written |-> << >>, received |-> << >>, pos |-> 0]

\* a handler collection without hooks, and no job
NoHandlers == [hooks |-> << >>, closed |-> FALSE, ran |-> << >>, closeCalls |-> 0]

NoIngestion == [called |-> "none"]

NoServices ==
    /\ handlers = NoHandlers
    /\ ingestion = NoIngestion

NoConnections ==
    /\ cstate = << >>
    /\ inp = << >>
    /\ out = << >>
    /\ closes = << >>
    /\ crashed = << >>
    /\ dispatched = << >>

Init ==
    /\ cstate = [c \in ConnIds |-> "AWAIT_HANDSHAKE"]
    /\ inp = [c \in ConnIds |-> << >>]
    /\ out = [c \in ConnIds |-> << >>]
    /\ closes = [c \in ConnIds |-> 0]
    /\ crashed = [c \in ConnIds |-> FALSE]
    /\ dispatched = [c \in ConnIds |-> << >>]
    /\ catalog \in ServingCatalogs
    /\ config \in Configs
    /\ streams = << >>
    /\ loopReady = << >>
    /\ producer = NoProducer
    /\ guardResult = "unchecked"
    /\ NoReindex
    /\ recovery = NoRecovery
    /\ codec = NoCodec
    /\ NoServices

Next ==
    \/ \E c \in DOMAIN cstate, w \in WireItems : Handshake(c, w)
    \/ \E c \in DOMAIN cstate, w \in WireItems, fault \in BOOLEAN : Serve(c, w, fault)
    \/ LoopRunCallback
    \/ \E j \in DOMAIN streams : ExecutorRun(j)

Spec == Init /\ [][Next]_vars

\* One job stream fed by an orchestrator context and drained by one consumer.
StreamInit ==
    /\ NoConnections
    /\ catalog \in {SourceCatalog(0, << >>, << >>)}
    /\ config \in {[healthPort |-> FALSE, reindexService |-> TRUE]}
    /\ streams = <<NewStream("c1", 1, "none")>>
    /\ loopReady = << >>
    /\ producer = [pc |-> "running", stream |-> 1, called |-> << >>]
    /\ guardResult = "unchecked"
    /\ NoReindex
    /\ recovery = NoRecovery
    /\ codec = NoCodec
    /\ NoServices

StreamNext ==
    \/ ProducerProgress
    \/ \E status \in TerminalStatuses : ProducerComplete(status)
    \/ ProducerSentinel
    \/ LoopRunCallback
    \/ \E j \in DOMAIN streams : Anext(j)

SpecStream == StreamInit /\ [][StreamNext]_vars

\* The guard applied to every catalog of the bounded input space.
Aliases == {"a", "b"}
Checksums == {"x", "y"}
Statuses == {"active", "quarantined"}

SeqsUpTo(S, n) == UNION { [1..k -> S] : k \in 0..n }

\* Catalogs with at most n sources and at most n snapshots.
GuardCatalogs(n) ==
    { SourceCatalog(v, srcs, snaps) :
        v \in {0, 1},
        srcs \in SeqsUpTo([alias : Aliases, status : Statuses,
                           checksum : Checksums \cup {NoValue}], n),
        snaps \in SeqsUpTo([alias : Aliases, checksum : Checksums], n) }

GuardInit ==
    /\ NoConnections
    /\ catalog \in GuardCatalogs(MaxSources)
    /\ config \in {[healthPort |-> FALSE, reindexService |-> FALSE]}
    /\ streams = << >>
    /\ loopReady = << >>
    /\ producer = NoProducer
    /\ guardResult = "unchecked"
    /\ NoReindex
    /\ recovery = NoRecovery
    /\ codec = NoCodec
    /\ NoServices

GuardNext == CheckGuard

SpecGuard == GuardInit /\ [][GuardNext]_vars

-----------------------------------------------------------------------------
(* Properties                                                              *)

\* The frames written while input frame i of connection c was handled.
FramesFor(c, i) == { k \in DOMAIN out[c] : out[c][k].for = i }

\* Frame attempt w carries a complete, newline-terminated JSON object.
IsObjectFrame(w) ==
    /\ w.lengthLine = "int" /\ w.payload = "full"
    /\ w.trailing = "newline" /\ w.text = "json"
    /\ w.frame.shape = "object"

IsRequest(w) ==
    /\ IsObjectFrame(w)
    /\ w.frame.type = "request"
    /\ w.frame.path \notin {NoValue, ""}

\* Input positions read by the serving loop (position 1 is the handshake).
ServingPositions(c) == 2..Len(inp[c])

IsHandshakeMismatch(w) ==
    /\ IsObjectFrame(w)
    /\ w.frame.type = "handshake"
    /\ (w.frame.protocol # "rag-cli-ipc" \/ w.frame.version # 1)

\* C1: a first frame that is a handshake with a wrong protocol id or a wrong
\* version is answered with exactly one error response whose code is
\* HANDSHAKE_ERROR; the connection is never SERVING afterwards, no further
\* frame is read from it and nothing is dispatched to the Router.
C1_HandshakeMismatchRejected ==
    \A c \in DOMAIN cstate :
        (Len(inp[c]) >= 1 /\ IsHandshakeMismatch(inp[c][1])) =>
            /\ Len(out[c]) = 1
            /\ out[c][1].type = "response"
            /\ out[c][1].code = "HANDSHAKE_ERROR"
            /\ cstate[c] = "CLOSED"
            /\ Len(inp[c]) = 1
            /\ dispatched[c] = << >>

C1_Witness ==
    \E c \in DOMAIN cstate :
        /\ Len(inp[c]) = 1
        /\ IsHandshakeMismatch(inp[c][1])
        /\ inp[c][1].frame.version = 2
        /\ cstate[c] = "CLOSED"
        /\ Len(out[c]) = 1

\* A first frame of one of the malformed kinds: bad length prefix, short
\* payload, missing newline sentinel, invalid JSON, JSON that is no object,
\* a type other than "handshake".
IsMalformedFirstFrame(w) ==
    \/ w.lengthLine = "notint"
    \/ w.lengthLine = "int" /\ w.payload = "short"
    \/ w.lengthLine = "int" /\ w.payload = "full" /\ w.trailing = "other"
    \/ w.lengthLine = "int" /\ w.payload = "full" /\ w.trailing = "newline"
         /\ w.text = "badjson"
    \/ w.lengthLine = "int" /\ w.payload = "full" /\ w.trailing = "newline"
         /\ w.text = "json" /\ w.frame.shape # "object"
    \/ IsObjectFrame(w) /\ w.frame.type # "handshake"

\* C2: a malformed first frame is answered with one error frame whose code is
\* HANDSHAKE_ERROR and the connection is terminated without ever serving.
C2_MalformedFirstFrameHandshakeError ==
    \A c \in DOMAIN cstate :
        (Len(inp[c]) >= 1 /\ IsMalformedFirstFrame(inp[c][1])) =>
            /\ Len(out[c]) = 1
            /\ out[c][1].code = "HANDSHAKE_ERROR"
            /\ cstate[c] = "CLOSED"
            /\ Len(inp[c]) = 1

\* The error response written for input position i of connection c, if it is
\* the only frame written for it.
AnsweredWith(c, i, status, code) ==
    /\ Cardinality(FramesFor(c, i)) = 1
    /\ \A k \in FramesFor(c, i) :
          /\ out[c][k].type = "response"
          /\ out[c][k].status = status
          /\ out[c][k].code = code

IsWrongTypeFrame(w) == IsObjectFrame(w) /\ w.frame.type # "request"

IsBadPathFrame(w) ==
    /\ IsObjectFrame(w)
    /\ w.frame.type = "request"
    /\ w.frame.path \in {NoValue, ""}

\* C3: in SERVING a frame whose type is not "request" is answered 400
\* INVALID_FRAME_TYPE and a request without a usable path 400 INVALID_PATH;
\* neither is dispatched, the connection is still SERVING right after, and a
\* valid request read next is dispatched and answered.
C3_RecoverableFrameErrors ==
    \A c \in DOMAIN cstate : \A i \in ServingPositions(c) :
        (IsWrongTypeFrame(inp[c][i]) \/ IsBadPathFrame(inp[c][i])) =>
            /\ IsWrongTypeFrame(inp[c][i]) => AnsweredWith(c, i, 400, "INVALID_FRAME_TYPE")
            /\ IsBadPathFrame(inp[c][i]) => AnsweredWith(c, i, 400, "INVALID_PATH")
            /\ i \notin SeqRange(dispatched[c])
            /\ i = Len(inp[c]) => cstate[c] = "SERVING"
            /\ (i < Len(inp[c]) /\ IsRequest(inp[c][i + 1])) =>
                  /\ (i + 1) \in SeqRange(dispatched[c])
                  /\ \E k \in FramesFor(c, i + 1) : out[c][k].type = "response"

C3_Witness ==
    \E c \in DOMAIN cstate :
        /\ Len(inp[c]) = 3
        /\ IsBadPathFrame(inp[c][2])
        /\ inp[c][2].frame.path = ""
        /\ IsRequest(inp[c][3])
        /\ 3 \in SeqRange(dispatched[c])
        /\ Len(out[c]) = 3

\* C4: a connection that has reached CLOSED has had its writer closed exactly
\* once, whichever path closed it.
C4_WriterClosedExactlyOnce ==
    \A c \in DOMAIN cstate : cstate[c] = "CLOSED" => closes[c] = 1

IsReindexRequest(w) ==
    /\ IsRequest(w)
    /\ w.frame.path = "/v1/index/reindex"
    /\ w.frame.body.trigger \in {NoValue, "init", "manual", "scheduled"}

\* C5: a reindex request for which the Router started a job is answered first
\* with an accepted frame: status 202 and the request's correlation id.
C5_ReindexAnsweredAccepted ==
    \A j \in DOMAIN streams :
        LET c == streams[j].conn
            i == streams[j].for
        IN IsReindexRequest(inp[c][i]) =>
              /\ FramesFor(c, i) # {}
              /\ \A k \in FramesFor(c, i) :
                    (\A m \in FramesFor(c, i) : k <= m) =>
                        /\ out[c][k].status = 202
                        /\ out[c][k].correlation_id = inp[c][i].frame.correlation_id

\* Items of stream j still waiting in the event loop's callback queue.
PendingFor(j) == { k \in DOMAIN loopReady : loopReady[k].stream = j }

HoldsTerminal(items) == \E k \in DOMAIN items : items[k].status \in TerminalStatuses

\* C6: once everything scheduled for an accepted reindex job has run (the
\* executor task is over and the loop has no callback left for it), the job's
\* stream holds a snapshot whose status is succeeded or failed.
C6_AcceptedJobReachesTerminal ==
    \A j \in DOMAIN streams :
        ( /\ streams[j].initial_status = 202
          /\ streams[j].exec # "scheduled"
          /\ PendingFor(j) = {} ) =>
            HoldsTerminal(streams[j].delivered \o streams[j].queue)

\* The items scheduled on the loop for stream j, oldest first.
RECURSIVE ReadyItems(_, _)
ReadyItems(ready, j) ==
    IF ready = << >> THEN << >>
    ELSE IF Head(ready).stream = j
         THEN <<Head(ready).item>> \o ReadyItems(Tail(ready), j)
         ELSE ReadyItems(Tail(ready), j)

\* C7: the stream hands its consumer the snapshots in callback order, none
\* lost or duplicated: what was delivered, then what waits in the queue, then
\* what waits on the loop is exactly the sequence of snapshots passed to
\* on_progress / on_complete, followed by the sentinel once on_complete has
\* returned; when the consumer has seen the sentinel it has received every
\* snapshot, the last one being the terminal one, and nothing waits behind it.
C7_StreamDeliversInCallOrder ==
    \A j \in DOMAIN streams :
        producer.stream = j =>
            LET s == streams[j]
                consumed == s.delivered \o (IF s.stopped THEN <<Sentinel>> ELSE << >>)
                produced == producer.called
                              \o (IF producer.pc = "done" THEN <<Sentinel>> ELSE << >>)
            IN /\ consumed \o s.queue \o ReadyItems(loopReady, j) = produced
               /\ Len(s.delivered) <= Len(producer.called)
               /\ \A k \in DOMAIN s.delivered :
                     k \in DOMAIN producer.called =>
                         s.delivered[k] = producer.called[k]
               /\ s.stopped =>
                     /\ s.delivered = producer.called
                     /\ s.delivered[Len(s.delivered)].status \in TerminalStatuses
                     /\ s.queue = << >>

C7_Witness ==
    \E j \in DOMAIN streams :
        /\ producer.stream = j
        /\ streams[j].stopped
        /\ Len(streams[j].delivered) >= 3
        /\ streams[j].delivered[Len(streams[j].delivered)].status = "failed"

\* The correlation id a response to frame w of connection c has to carry.
ExpectedCorrelation(c, w) ==
    IF w.frame.correlation_id \notin {NoValue, ""}
    THEN w.frame.correlation_id
    ELSE FallbackId(c)

\* C8: every valid request on a non-streaming path read in SERVING has exactly
\* one response frame, carrying the request's correlation id when that is a
\* non-empty string and the connection's fallback id otherwise; and frames are
\* written in the order in which the frames they answer were read.
C8_OneResponsePerRequestInOrder ==
    \A c \in DOMAIN cstate :
        /\ \A i \in ServingPositions(c) :
              (IsRequest(inp[c][i]) /\ inp[c][i].frame.path # "/v1/index/reindex") =>
                  /\ Cardinality(FramesFor(c, i)) = 1
                  /\ \A k \in FramesFor(c, i) :
                        /\ out[c][k].type = "response"
                        /\ out[c][k].correlation_id = ExpectedCorrelation(c, inp[c][i])
        /\ \A k, m \in DOMAIN out[c] : k < m => out[c][k].for < out[c][m].for

C8_Witness ==
    \E c \in DOMAIN cstate :
        /\ Len(inp[c]) = 3
        /\ IsRequest(inp[c][2]) /\ inp[c][2].frame.correlation_id = ""
        /\ IsRequest(inp[c][3]) /\ inp[c][3].frame.correlation_id = "r2"
        /\ Len(out[c]) = 3
        /\ out[c][2].correlation_id = FallbackId(c)
        /\ out[c][3].correlation_id = "r2"
        /\ out[c][3].status = 200

\* The guard's rule list, stated over the catalog's contents.
GuardRule(cat) ==
    IF cat.version <= 0 \/ Len(cat.snapshots) = 0 THEN "INDEX_MISSING"
    ELSE IF \E i, j \in DOMAIN cat.snapshots :
               i # j /\ cat.snapshots[i].alias = cat.snapshots[j].alias
         THEN "INDEX_STALE"
    ELSE IF { cat.snapshots[i].alias : i \in DOMAIN cat.snapshots }
              # { cat.sources[i].alias :
                    i \in { n \in DOMAIN cat.sources : cat.sources[n].status = "active" } }
         THEN "INDEX_STALE"
    ELSE IF \E i \in DOMAIN cat.sources :
               /\ cat.sources[i].status = "active"
               /\ \/ cat.sources[i].checksum = NoValue
                  \/ \E n \in DOMAIN cat.snapshots :
                        /\ cat.snapshots[n].alias = cat.sources[i].alias
                        /\ cat.snapshots[n].checksum # cat.sources[i].checksum
         THEN "INDEX_STALE"
    ELSE "PASS"

\* C9: the guard's result on a catalog is the one the ordered rule list gives
\* (INDEX_MISSING, then the three INDEX_STALE rules, else PASS), and evaluating
\* the guard leaves the catalog as it was.
C9_GuardFollowsRuleList ==
    /\ [](guardResult # "unchecked" => guardResult = GuardRule(catalog))
    /\ [][guardResult' # guardResult => catalog' = catalog]_vars

C9_Witness ==
    /\ guardResult = "INDEX_STALE"
    /\ catalog.version = 1
    /\ Len(catalog.snapshots) = 2
    /\ catalog.snapshots[1].alias = catalog.snapshots[2].alias
    /\ Len(catalog.sources) = 1
    /\ catalog.sources[1] = SourceRecord(catalog.snapshots[1].alias, "active",
                                   catalog.snapshots[1].checksum)

IsQueryRequest(w) ==
    /\ IsRequest(w)
    /\ w.frame.path = "/v1/query"
    /\ w.frame.body.question
    /\ w.frame.body.tokensOk

\* C10: a query read while the catalog is stale is answered with status 409
\* and code INDEX_STALE, and never with status 200.
C10_StaleQueryRejected ==
    \A c \in DOMAIN cstate : \A i \in ServingPositions(c) :
        (IsQueryRequest(inp[c][i]) /\ GuardRule(catalog) = "INDEX_STALE") =>
            \A k \in FramesFor(c, i) :
                /\ out[c][k].status # 200
                /\ out[c][k].status = 409
                /\ out[c][k].code = "INDEX_STALE"

-----------------------------------------------------------------------------
(* Query on a missing index                                                *)

IndexMissing(cat) == cat.version <= 0 \/ cat.snapshots = << >>

\* C11: a well-formed /v1/query request read while the catalog version is 0
\* or the catalog has no snapshots is answered with exactly one response of
\* status 409 and code INDEX_MISSING, and the connection is still SERVING
\* right after.
C11_MissingIndexQueryRejected ==
    \A c \in DOMAIN cstate : \A i \in ServingPositions(c) :
        (IsQueryRequest(inp[c][i]) /\ IndexMissing(catalog)) =>
            /\ AnsweredWith(c, i, 409, "INDEX_MISSING")
            /\ i = Len(inp[c]) => cstate[c] = "SERVING"

C11_Witness ==
    \E c \in DOMAIN cstate :
        /\ catalog.version = 1
        /\ catalog.snapshots = << >>
        /\ Len(inp[c]) = 3
        /\ IsQueryRequest(inp[c][2])
        /\ AnsweredWith(c, 2, 409, "INDEX_MISSING")
        /\ IsQueryRequest(inp[c][3])
        /\ AnsweredWith(c, 3, 409, "INDEX_MISSING")
        /\ cstate[c] = "SERVING"

-----------------------------------------------------------------------------
(* Reindex orchestrator: ReindexService.run                                *)

\* faults one run may meet (calls to collaborators that raise)
MaxFaults == 2

\* documents the chunk builder returns for one source
MaxChunks == 1

\* Source aliases in the order Python compares them as strings.
AliasOrder == <<"a", "b", "c">>

AliasIndex(alias) == CHOOSE i \in DOMAIN AliasOrder : AliasOrder[i] = alias

\* list.sort(key=lambda record: record.alias): a stable insertion of record
\* behind every element whose alias is not greater.
RECURSIVE InsertByAlias(_, _)
InsertByAlias(record, sorted) ==
    IF sorted = << >> THEN <<record>>
    ELSE IF AliasIndex(Head(sorted).alias) <= AliasIndex(record.alias)
         THEN <<Head(sorted)>> \o InsertByAlias(record, Tail(sorted))
         ELSE <<record>> \o sorted

\* Mutant: the list is left in the order it was built.
SortByAliasKeepsOrder(records) == records

\* Mutant: the list is left as built, without the records that are not active.
SortByAliasActiveOnly(records) ==
    SelectSeq(records, LAMBDA record : record.status = "active")

RECURSIVE SortByAlias(_)
SortByAlias(records) ==
    IF records = << >> THEN << >>
    ELSE InsertByAlias(records[Len(records)],
                       SortByAlias(SubSeq(records, 1, Len(records) - 1)))

\* percent_complete as the exact fraction num/den.
Percent(num, den) == [num |-> num, den |-> den]

\* (processed_sources / total_sources) * 100.0, or 100.0 without sources
PercentComplete(processed, total) ==
    IF total = 0 THEN Percent(100, 1) ELSE Percent(processed * 100, total)

\* The fields of IngestionJob the run changes.
IngestionJob(status, stage, percent, error) ==
    [status |-> status, stage |-> stage, percent_complete |-> percent,
     documents_processed |-> 0, error_message |-> error]

\* Mutant: every processed source is reported as ingested.
SourceStageAlwaysIngesting(changed, alias) == "ingesting:" \o alias

SourceStage(changed, alias) ==
    IF changed THEN "ingesting:" \o alias ELSE "skipping:" \o alias

\* Mutant: the loaded version is written back unchanged.
NextVersionKeepsVersion(cat) == cat.version

\* version=catalog.version + 1
NextVersion(cat) == cat.version + 1

\* One callback invocation: which hook, the job passed, whether it raised.
Call(hook, job, raised) == [hook |-> hook, job |-> job, raised |-> raised]

\* _log_audit: one entry, when an audit logger is configured.
LogAudit(log, run, id, status) ==
    IF run.auditLogger
    THEN Append(log, [action |-> "admin_reindex", status |-> status, target |-> id])
    ELSE log

NoCatalog == SourceCatalog(-1, << >>, << >>)

\* A run that has been requested and not started: its locals once it runs.
\* pc: "start" | "load" | "sources" | "complete" | "failing" | "done"
NewRun(auditLogger, faults) ==
    [pc |-> "start", auditLogger |-> auditLogger, faultsLeft |-> faults,
     job |-> IngestionJob("running", "preparing_index", Percent(0, 1), NoValue),
     loaded |-> NoCatalog, loads |-> 0, k |-> 1,
     processed_sources |-> 0, documents_processed |-> 0,
     updated_sources |-> << >>,
     new_snapshots |-> << >>, currents |-> << >>, builderCalls |-> << >>,
     calls |-> << >>, exc |-> NoValue,
     outcome |-> "running", raisedExc |-> NoValue,
     returned |-> IngestionJob(NoValue, NoValue, Percent(0, 1), NoValue)]

\* A collaborator call of run may raise while the run has faults left.
MayRaise(run, fault) == fault # "none" => run.faultsLeft > 0

\* The exception raised by collaborator fault at step pc.
Exc(fault, pc) == fault \o "@" \o pc

Fails(run, fault) ==
    [run EXCEPT !.faultsLeft = @ - 1, !.exc = Exc(fault, run.pc), !.pc = "failing"]

\* run() up to the try statement: the first job snapshot goes to on_progress
\* and "started" to the audit log; an exception here leaves run() at once.
RunStart(r, fault) ==
    LET run == runs[r]
        called == [run EXCEPT !.calls =
                      Append(@, Call("on_progress", run.job, fault = "on_progress"))]
        escaped == [called EXCEPT !.faultsLeft = @ - 1, !.pc = "done",
                                  !.exc = Exc(fault, "start"),
                                  !.outcome = "raised",
                                  !.raisedExc = Exc(fault, "start")]
    IN /\ run.pc = "start"
       /\ fault \in {"none", "on_progress", "audit"}
       /\ MayRaise(run, fault)
       /\ fault = "audit" => run.auditLogger
       /\ runs' = [runs EXCEPT ![r] =
                      IF fault = "none" THEN [called EXCEPT !.pc = "load"]
                      ELSE escaped]
       /\ audit' = IF fault = "none" THEN LogAudit(audit, run, r, "started")
                   ELSE audit
       /\ UNCHANGED <<connVars, catalog, config, streams, loopReady, producer,
                      guardResult, saved, recovery, codec, svcVars>>

\* catalog = self._storage.load()
RunLoad(r, fault) ==
    LET run == runs[r]
        tried == [run EXCEPT !.loads = @ + 1]
    IN /\ run.pc = "load"
       /\ fault \in {"none", "load"}
       /\ MayRaise(run, fault)
       /\ runs' = [runs EXCEPT ![r] =
                      IF fault = "none"
                      THEN [tried EXCEPT !.loaded = catalog, !.pc = "sources"]
                      ELSE Fails(tried, fault)]
       /\ UNCHANGED <<connVars, catalog, config, streams, loopReady, producer,
                      guardResult, audit, saved, recovery, codec, svcVars>>

\* Mutant: the snapshot keeps the checksum the record was loaded with.
RefreshedSnapshotOldChecksum(record, checksum) ==
    SourceSnapshot(record.alias, record.checksum)

\* SourceSnapshot(alias=alias, checksum=checksum) of a processed source
RefreshedSnapshot(record, checksum) == SourceSnapshot(record.alias, checksum)

\* One pass of the loop over catalog.sources; current is the checksum the
\* checksum calculator returns for the record's location, documents the
\* number of documents the chunk builder returns.
RunSource(r, current, documents, fault) ==
    LET run == runs[r]
        record == run.loaded.sources[run.k]
        changed == current # (IF record.checksum = NoValue THEN "" ELSE record.checksum)
        hashed == [run EXCEPT !.currents = Append(@, current)]
        built == IF changed
                 THEN [hashed EXCEPT !.builderCalls = Append(@, record.alias),
                                     !.documents_processed = @ + documents]
                 ELSE hashed
        processed == run.processed_sources + 1
        job == [run.job EXCEPT
                   !.documents_processed = built.documents_processed,
                   !.stage = SourceStage(changed, record.alias),
                   !.percent_complete =
                       PercentComplete(processed,
                                       Len(ActiveSources(run.loaded)))]
        emitted == [built EXCEPT
                       !.updated_sources =
                           Append(@, SourceRecord(record.alias, record.status, current)),
                       !.new_snapshots =
                           Append(@, RefreshedSnapshot(record, current)),
                       !.processed_sources = processed,
                       !.job = job,
                       !.calls = Append(@, Call("on_progress", job,
                                                fault = "on_progress"))]
    IN /\ run.pc = "sources"
       /\ run.k <= Len(run.loaded.sources)
       /\ MayRaise(run, fault)
       /\ IF record.status # "active"
          THEN /\ fault = "none"
               /\ current = record.checksum
               /\ documents = 0
               /\ runs' = [runs EXCEPT ![r] =
                              [run EXCEPT !.updated_sources = Append(@, record),
                                          !.k = @ + 1]]
          ELSE /\ fault \in {"none", "checksum", "chunk_builder", "on_progress"}
               /\ fault = "chunk_builder" => changed
               /\ (~changed \/ fault \in {"checksum", "chunk_builder"}) => documents = 0
               /\ runs' = [runs EXCEPT ![r] =
                              CASE fault = "checksum" -> Fails(run, fault)
                                [] fault = "chunk_builder" -> Fails(built, fault)
                                [] fault = "on_progress" -> Fails(emitted, fault)
                                [] OTHER -> [emitted EXCEPT !.k = @ + 1]]
       /\ UNCHANGED <<connVars, catalog, config, streams, loopReady, producer,
                      guardResult, audit, saved, recovery, codec, svcVars>>

\* After the loop: sort the sources, save the new catalog, write the content
\* index version.
RunSave(r, fault) ==
    LET run == runs[r]
        new_catalog == SourceCatalog(NextVersion(run.loaded),
                                     SortByAlias(run.updated_sources),
                                     run.new_snapshots)
    IN /\ run.pc = "sources"
       /\ run.k > Len(run.loaded.sources)
       /\ fault \in {"none", "save", "index_writer"}
       /\ MayRaise(run, fault)
       /\ runs' = [runs EXCEPT ![r] =
                      IF fault = "none" THEN [run EXCEPT !.pc = "complete"]
                      ELSE Fails(run, fault)]
       /\ IF fault = "save"
          THEN UNCHANGED <<catalog, saved>>
          ELSE /\ catalog' = new_catalog
               /\ saved' = Append(saved, [by |-> r, loaded |-> run.loaded,
                                          catalog |-> new_catalog])
       /\ UNCHANGED <<connVars, config, streams, loopReady, producer,
                      guardResult, audit, recovery, codec, svcVars>>

\* final_job goes to on_complete, "success" to the audit log, run() returns.
RunComplete(r, fault) ==
    LET run == runs[r]
        final_job == [run.job EXCEPT !.status = "succeeded",
                                     !.stage = "completed",
                                     !.percent_complete = Percent(100, 1)]
        called == [run EXCEPT !.calls =
                      Append(@, Call("on_complete", final_job, fault = "on_complete"))]
    IN /\ run.pc = "complete"
       /\ fault \in {"none", "on_complete", "audit"}
       /\ MayRaise(run, fault)
       /\ fault = "audit" => run.auditLogger
       /\ runs' = [runs EXCEPT ![r] =
                      IF fault = "none"
                      THEN [called EXCEPT !.pc = "done", !.outcome = "returned",
                                          !.returned = final_job]
                      ELSE Fails(called, fault)]
       /\ audit' = IF fault = "none" THEN LogAudit(audit, run, r, "success")
                   ELSE audit
       /\ UNCHANGED <<connVars, catalog, config, streams, loopReady, producer,
                      guardResult, saved, recovery, codec, svcVars>>

\* The except block: failed_job goes to on_complete, "failure" to the audit
\* log, and the exception is raised again; an exception raised inside the
\* block replaces it.
RunFail(r, fault) ==
    LET run == runs[r]
        failed_job == [run.job EXCEPT !.status = "failed", !.stage = "failed",
                                      !.error_message = run.exc]
        called == [run EXCEPT !.job = failed_job, !.pc = "done",
                              !.outcome = "raised",
                              !.calls = Append(@, Call("on_complete", failed_job,
                                                       fault = "on_complete"))]
    IN /\ run.pc = "failing"
       /\ fault \in {"none", "on_complete", "audit"}
       /\ MayRaise(run, fault)
       /\ fault = "audit" => run.auditLogger
       /\ runs' = [runs EXCEPT ![r] =
                      IF fault = "none" THEN [called EXCEPT !.raisedExc = run.exc]
                      ELSE [called EXCEPT !.faultsLeft = @ - 1,
                                          !.raisedExc = Exc(fault, "failing")]]
       /\ audit' = IF fault = "none" THEN LogAudit(audit, run, r, "failure")
                   ELSE audit
       /\ UNCHANGED <<connVars, catalog, config, streams, loopReady, producer,
                      guardResult, saved, recovery, codec, svcVars>>

-----------------------------------------------------------------------------
(* Source catalog mutations: SourceCatalogService                          *)

\* source mutations persisted in one behaviour
MaxMutations == 2

SourceAliases(cat) == { cat.sources[i].alias : i \in DOMAIN cat.sources }

\* _log_mutation
LogMutation(log, action, alias) ==
    Append(log, [action |-> action, status |-> "success", target |-> alias])

MutationsSaved == Len(SelectSeq(saved, LAMBDA s : s.by = 0))

\* What every mutation does with the catalog it built: save it, then audit.
PersistMutation(action, alias, new_catalog) ==
    /\ MutationsSaved < MaxMutations
    /\ catalog' = new_catalog
    /\ saved' = Append(saved, [by |-> 0, loaded |-> catalog, catalog |-> new_catalog])
    /\ audit' = LogMutation(audit, action, alias)
    /\ UNCHANGED <<connVars, config, streams, loopReady, producer, guardResult,
                   runs, recovery, codec, svcVars>>

\* create_source for a location whose generated alias is alias.
CreateSource(alias, checksum) ==
    /\ alias \notin SourceAliases(catalog)
    /\ PersistMutation("source_add", alias,
          SourceCatalog(NextVersion(catalog),
                        SortByAlias(Append(catalog.sources,
                            SourceRecord(alias, "pending_validation", checksum))),
                        Append(catalog.snapshots, SourceSnapshot(alias, checksum))))

ReplaceRecord(sources, record) ==
    [i \in DOMAIN sources |->
        IF sources[i].alias = record.alias THEN record ELSE sources[i]]

\* update_source with a new location whose checksum is checksum; an unknown
\* alias raises ValueError before anything is saved.
UpdateSource(alias, checksum) ==
    /\ alias \in SourceAliases(catalog)
    /\ LET current == CHOOSE rec \in SeqRange(catalog.sources) : rec.alias = alias
           updated_record == SourceRecord(alias, current.status, checksum)
           replaced == [i \in DOMAIN catalog.snapshots |->
                           IF catalog.snapshots[i].alias = alias
                           THEN SourceSnapshot(alias, checksum)
                           ELSE catalog.snapshots[i]]
           updated_snapshots ==
               IF alias \in SnapshotAliases(catalog) THEN replaced
               ELSE Append(catalog.snapshots, SourceSnapshot(alias, checksum))
       IN PersistMutation("source_update", alias,
             SourceCatalog(NextVersion(catalog),
                           SortByAlias(ReplaceRecord(catalog.sources, updated_record)),
                           updated_snapshots))

\* remove_source: the record is quarantined and its snapshot dropped.
RemoveSource(alias) ==
    /\ alias \in SourceAliases(catalog)
    /\ LET current == CHOOSE rec \in SeqRange(catalog.sources) : rec.alias = alias
           updated_record == SourceRecord(alias, "quarantined", current.checksum)
       IN PersistMutation("source_remove", alias,
             SourceCatalog(NextVersion(catalog),
                           SortByAlias(ReplaceRecord(catalog.sources, updated_record)),
                           SelectSeq(catalog.snapshots,
                                     LAMBDA snap : snap.alias # alias)))

-----------------------------------------------------------------------------
(* Reindex specifications                                                  *)

\* Sequences of length n over S without repetition.
InjectiveSeqs(S, n) ==
    { q \in [1..n -> S] : \A i, j \in 1..n : q[i] = q[j] => i = j }

\* The snapshots of an index that is current for sources.
SnapshotsOf(sources) ==
    LET active == SelectSeq(sources, IsActiveSource)
    IN [i \in DOMAIN active |-> SourceSnapshot(active[i].alias, active[i].checksum)]

\* Stored catalogs a run can load: the empty catalog of a fresh data
\* directory, and indexed catalogs whose sources are each active or
\* quarantined, in any order (the bootstrap catalog is not sorted by alias).
ReindexCatalogs ==
    { SourceCatalog(0, << >>, << >>) }
    \cup
    { SourceCatalog(1, sources, SnapshotsOf(sources)) :
        sources \in UNION {
            { [i \in 1..n |-> SourceRecord(aliases[i], statuses[i], "x")] :
                aliases \in InjectiveSeqs(SeqRange(AliasOrder), n),
                statuses \in [1..n -> Statuses] } : n \in 1..MaxSources } }

\* One run, with or without an audit logger, whose collaborators may raise.
ReindexInit ==
    /\ NoConnections
    /\ catalog \in ReindexCatalogs
    /\ config \in {[healthPort |-> FALSE, reindexService |-> TRUE]}
    /\ streams = << >>
    /\ loopReady = << >>
    /\ producer = NoProducer
    /\ guardResult = "unchecked"
    /\ runs \in { <<NewRun(auditLogger, MaxFaults)>> : auditLogger \in BOOLEAN }
    /\ audit = << >>
    /\ saved = << >>
    /\ recovery = NoRecovery
    /\ codec = NoCodec
    /\ NoServices

Faults == {"none", "on_progress", "audit", "load", "checksum", "chunk_builder",
           "save", "index_writer", "on_complete"}

ReindexNext ==
    \/ \E r \in DOMAIN runs, fault \in Faults : RunStart(r, fault)
    \/ \E r \in DOMAIN runs, fault \in Faults : RunLoad(r, fault)
    \/ \E r \in DOMAIN runs, current \in Checksums, documents \in 0..MaxChunks,
             fault \in Faults :
          RunSource(r, current, documents, fault)
    \/ \E r \in DOMAIN runs, fault \in Faults : RunSave(r, fault)
    \/ \E r \in DOMAIN runs, fault \in Faults : RunComplete(r, fault)
    \/ \E r \in DOMAIN runs, fault \in Faults : RunFail(r, fault)

SpecReindex == ReindexInit /\ [][ReindexNext]_vars

\* A run on a worker thread whose collaborators do not raise, next to source
\* mutations made on the same catalog store.
CatalogInit ==
    /\ NoConnections
    /\ catalog \in { c \in ReindexCatalogs : Len(c.sources) <= 1 }
    /\ config \in {[healthPort |-> FALSE, reindexService |-> TRUE]}
    /\ streams = << >>
    /\ loopReady = << >>
    /\ producer = NoProducer
    /\ guardResult = "unchecked"
    /\ runs = <<NewRun(TRUE, 0)>>
    /\ audit = << >>
    /\ saved = << >>
    /\ recovery = NoRecovery
    /\ codec = NoCodec
    /\ NoServices

CatalogNext ==
    \/ \E r \in DOMAIN runs : RunStart(r, "none")
    \/ \E r \in DOMAIN runs : RunLoad(r, "none")
    \/ \E r \in DOMAIN runs, current \in Checksums : RunSource(r, current, 0, "none")
    \/ \E r \in DOMAIN runs : RunSave(r, "none")
    \/ \E r \in DOMAIN runs : RunComplete(r, "none")
    \/ \E alias \in SeqRange(AliasOrder), checksum \in Checksums :
          CreateSource(alias, checksum)
    \/ \E alias \in SeqRange(AliasOrder), checksum \in Checksums :
          UpdateSource(alias, checksum)
    \/ \E alias \in SeqRange(AliasOrder) : RemoveSource(alias)

SpecCatalog == CatalogInit /\ [][CatalogNext]_vars

-----------------------------------------------------------------------------
(* Properties of the reindex orchestrator                                  *)

\* The snapshots run r passed to on_progress after the first ("preparing").
PerSourceCalls(run) ==
    LET progress == SelectSeq(run.calls, LAMBDA c : c.hook = "on_progress")
    IN IF progress = << >> THEN << >> ELSE Tail(progress)

\* Aliases of the first n active sources whose checksum differs from the
\* stored one, in catalog order.
RECURSIVE ChangedAliases(_, _, _)
ChangedAliases(active, currents, n) ==
    IF n = 0 THEN << >>
    ELSE ChangedAliases(active, currents, n - 1)
         \o (IF currents[n] # active[n].checksum THEN <<active[n].alias>> ELSE << >>)

\* C12: a run handles the active sources one at a time in catalog order and
\* emits exactly one per-source snapshot for each: stage "ingesting:<alias>"
\* when the current checksum differs from the stored one, "skipping:<alias>"
\* otherwise; the chunk builder is called exactly once for each changed
\* source and for no other; a run that returns has done so for all N.
C12_PerSourceProgress ==
    \A r \in DOMAIN runs :
        LET run == runs[r]
            active == ActiveSources(run.loaded)
            per == PerSourceCalls(run)
            seen == Len(run.currents)
        IN /\ seen <= Len(active)
           /\ Len(per) <= seen
           /\ Len(per) >= seen - 1
           /\ run.exc = NoValue => Len(per) = seen
           /\ \A i \in DOMAIN per :
                 i <= seen =>
                    per[i].job.stage =
                        (IF run.currents[i] # active[i].checksum
                         THEN "ingesting:" \o active[i].alias
                         ELSE "skipping:" \o active[i].alias)
           /\ run.builderCalls = ChangedAliases(active, run.currents, seen)
           /\ run.outcome = "returned" => Len(per) = Len(active)

C12_Witness ==
    \E r \in DOMAIN runs :
        /\ runs[r].outcome = "returned"
        /\ Len(ActiveSources(runs[r].loaded)) = 2
        /\ Len(runs[r].builderCalls) = 1
        /\ Len(PerSourceCalls(runs[r])) = 2
        /\ runs[r].builderCalls[1] = ActiveSources(runs[r].loaded)[2].alias

SavesBy(r) == SelectSeq(saved, LAMBDA s : s.by = r)

\* C13: a run in which no collaborator raised returns a job with status
\* SUCCEEDED, stage "completed" and percent_complete 100, and has saved the
\* catalog exactly once, with the loaded version plus 1.
C13_CleanRunSucceeds ==
    \A r \in DOMAIN runs :
        (runs[r].pc = "done" /\ runs[r].faultsLeft = MaxFaults) =>
            /\ runs[r].outcome = "returned"
            /\ runs[r].returned.status = "succeeded"
            /\ runs[r].returned.stage = "completed"
            /\ runs[r].returned.percent_complete.num
                  = 100 * runs[r].returned.percent_complete.den
            /\ Len(SavesBy(r)) = 1
            /\ SavesBy(r)[1].catalog.version = runs[r].loaded.version + 1

C13_Witness ==
    \E r \in DOMAIN runs :
        /\ runs[r].pc = "done"
        /\ runs[r].faultsLeft = MaxFaults
        /\ runs[r].loaded.version = 1
        /\ Len(ActiveSources(runs[r].loaded)) = 2
        /\ catalog.version = 2

\* C14: a run in which a step raised has marked its job FAILED with stage
\* "failed" and the exception text as error_message, has called on_complete
\* with that job, has raised the same exception to its caller, and has not
\* run its steps a second time.
C14_FailureMarkedAndReraised ==
    \A r \in DOMAIN runs :
        (runs[r].pc = "done" /\ runs[r].exc # NoValue) =>
            /\ runs[r].job.status = "failed"
            /\ runs[r].job.stage = "failed"
            /\ runs[r].job.error_message = runs[r].exc
            /\ \E i \in DOMAIN runs[r].calls :
                  /\ runs[r].calls[i].hook = "on_complete"
                  /\ runs[r].calls[i].job = runs[r].job
            /\ runs[r].outcome = "raised"
            /\ runs[r].raisedExc = runs[r].exc
            /\ runs[r].loads <= 1

\* The statuses run r wrote to the audit log, in order.
AuditTrail(r) ==
    LET mine == SelectSeq(audit, LAMBDA e : e.action = "admin_reindex" /\ e.target = r)
    IN [i \in DOMAIN mine |-> mine[i].status]

\* C15: a finished run with an audit logger has written "started" and then
\* exactly one of "success" and "failure" for its job id.
C15_AuditStartedThenOutcome ==
    \A r \in DOMAIN runs :
        (runs[r].pc = "done" /\ runs[r].auditLogger) =>
            AuditTrail(r) \in {<<"started", "success">>, <<"started", "failure">>}

IsSortedByAlias(records) ==
    \A i, j \in DOMAIN records :
        i < j => AliasIndex(records[i].alias) <= AliasIndex(records[j].alias)

\* C16 as stated: every catalog saved by a run has its snapshots sorted by
\* alias.
C16_SavedSnapshotsSortedByAlias ==
    \A i \in DOMAIN saved :
        saved[i].by # 0 => IsSortedByAlias(saved[i].catalog.snapshots)

\* C16 amended: every catalog saved by a run has its sources sorted by alias
\* and one snapshot per active source, in the order the active sources have
\* in the loaded catalog.
C16_SavedSourcesSortedSnapshotsInCatalogOrder ==
    \A i \in DOMAIN saved :
        saved[i].by # 0 =>
            LET active == ActiveSources(saved[i].loaded)
                snaps == saved[i].catalog.snapshots
            IN /\ IsSortedByAlias(saved[i].catalog.sources)
               /\ Len(saved[i].catalog.sources) = Len(saved[i].loaded.sources)
               /\ Len(snaps) = Len(active)
               /\ \A k \in DOMAIN snaps : snaps[k].alias = active[k].alias

C16_Witness ==
    \E i \in DOMAIN saved :
        /\ saved[i].by # 0
        /\ Len(saved[i].catalog.snapshots) = 2
        /\ saved[i].loaded.sources[1].alias = "b"
        /\ saved[i].catalog.snapshots[1].alias = "b"
        /\ saved[i].catalog.snapshots[2].alias = "a"
        /\ saved[i].catalog.sources[1].alias = "a"

\* C17: the snapshots of one run are RUNNING ones passed to on_progress,
\* closed by at most one terminal snapshot (SUCCEEDED or FAILED) passed to
\* on_complete, exactly one once the run is over; nothing follows the
\* terminal snapshot and no snapshot is QUEUED or CANCELLED.
C17_OneTerminalSnapshotLast ==
    \A r \in DOMAIN runs :
        LET calls == runs[r].calls
            terminal == { i \in DOMAIN calls : calls[i].job.status \in TerminalStatuses }
        IN /\ Cardinality(terminal) <= 1
           /\ runs[r].pc = "done" => Cardinality(terminal) = 1
           /\ \A i \in terminal : i = Len(calls) /\ calls[i].hook = "on_complete"
           /\ \A i \in DOMAIN calls \ terminal :
                 /\ calls[i].job.status = "running"
                 /\ calls[i].hook = "on_progress"

\* C18: the stored version grows by exactly 1 with every persisted mutation:
\* the k-th save stores the initial version plus k, and the store holds what
\* was saved last.
C18_VersionCountsMutations ==
    \A i \in DOMAIN saved :
        /\ saved[i].catalog.version = saved[1].loaded.version + i
        /\ i = Len(saved) => catalog.version = saved[1].loaded.version + i

-----------------------------------------------------------------------------
(* Job recovery: JobRecoveryService.record_progress, plan_resume, resume   *)

\* length of the ordered workload passed to the recovery service
MaxDocs == 2

DocIds == {"A", "B", "C"}

JobStatuses == {"queued", "running", "succeeded", "failed", "cancelled"}

\* job.stage: None, the empty string, or a label
Stages == {NoValue, "", "vectorizing"}

DocSeqs == SeqsUpTo(DocIds, MaxDocs)

\* Checkpoint(processed_document_ids, percent_complete)
Checkpoint(ids, percent) == [processed_document_ids |-> ids, percent_complete |-> percent]

NoCheckpoint == Checkpoint(<<NoValue>>, Percent(0, 1))

\* ResumePlan(remaining_document_ids, percent_complete, resume_stage)
ResumePlan(remaining, percent, stage) ==
    [remaining_document_ids |-> remaining, percent_complete |-> percent,
     resume_stage |-> stage]

ValueError == [raised |-> "ValueError"]

\* Mutant: each processed id is put in front of the ones found before it.
RECURSIVE OrderedProcessedNewestFirst(_, _)
OrderedProcessedNewestFirst(document_ids, processed_set) ==
    IF document_ids = << >> THEN << >>
    ELSE OrderedProcessedNewestFirst(Tail(document_ids), processed_set)
         \o (IF Head(document_ids) \in processed_set
             THEN <<Head(document_ids)>> ELSE << >>)

\* for identifier in document_ids: if identifier in processed_set: append
RECURSIVE OrderedProcessed(_, _)
OrderedProcessed(document_ids, processed_set) ==
    IF document_ids = << >> THEN << >>
    ELSE (IF Head(document_ids) \in processed_set
          THEN <<Head(document_ids)>> ELSE << >>)
         \o OrderedProcessed(Tail(document_ids), processed_set)

\* record_progress.  oneShot: processed_document_ids is an iterator, which
\* the metadata's len(set(...)) has exhausted before processed_set is built.
RecordProgressResult(status, processed, oneShot, document_ids) ==
    LET processed_set == IF oneShot THEN {} ELSE processed
        ordered_processed == OrderedProcessed(document_ids, processed_set)
    IN IF status # "running" THEN ValueError
       ELSE IF document_ids = << >> THEN Checkpoint(<< >>, Percent(0, 1))
       ELSE Checkpoint(ordered_processed,
                       Percent(Len(ordered_processed) * 100, Len(document_ids)))

\* Mutant: a job without a stage resumes at "resuming_".
ResumeStageNoDefault(stage) ==
    "resuming_" \o (IF stage = NoValue THEN "" ELSE stage)

\* resume_stage = "resuming_ingestion"; if job.stage: f"resuming_{job.stage}"
ResumeStage(stage) ==
    IF stage \in {NoValue, ""} THEN "resuming_ingestion" ELSE "resuming_" \o stage

\* tuple(identifier for identifier in document_ids if identifier not in processed_set)
Remaining(document_ids, processed_ids) ==
    SelectSeq(document_ids, LAMBDA d : d \notin SeqRange(processed_ids))

\* plan_resume
PlanResumeResult(status, stage, checkpoint, document_ids) ==
    IF checkpoint = NoCheckpoint THEN ValueError
    ELSE IF status \notin {"running", "failed"} THEN ValueError
    ELSE ResumePlan(Remaining(document_ids, checkpoint.processed_document_ids),
                    checkpoint.percent_complete,
                    ResumeStage(stage))

\* clock(): the time of the recovery call
Clock == "now"

\* job.started_at: None, or the time an earlier run started
StartedAts == {NoValue, "earlier"}

\* The job handed to the recovery service: a failed job carries the time it
\* stopped and its error, any other job neither.
RecoveryJob(status, stage, started_at) ==
    [status |-> status, stage |-> stage, started_at |-> started_at,
     completed_at |-> IF status \in {"succeeded", "failed", "cancelled"}
                      THEN "stopped" ELSE NoValue,
     documents_processed |-> 0,
     percent_complete |-> Percent(0, 1),
     error_message |-> IF status = "failed" THEN "boom" ELSE NoValue]

\* Mutant: resume writes the new status into the job it was given.
InputsAfterWritesJob(called, job, processed, oneShot, checkpoint, document_ids) ==
    [job |-> IF called = "resume" THEN [job EXCEPT !.status = "running"] ELSE job,
     processed |-> processed,
     exhausted |-> oneShot,
     checkpoint |-> checkpoint,
     document_ids |-> document_ids]

\* The arguments as they stand when the call is over.  The job and the
\* checkpoint are frozen dataclasses that the service only reads and copies
\* with replace(); the id collections are only iterated, measured and copied
\* into new sets and tuples; an iterator of processed ids has been consumed.
InputsAfter(called, job, processed, oneShot, checkpoint, document_ids) ==
    [job |-> job,
     processed |-> processed,
     exhausted |-> oneShot,
     checkpoint |-> checkpoint,
     document_ids |-> document_ids]

\* Mutant: the promoted job keeps the document count it had.
CompletedJobKeepsCount(job, document_ids) ==
    [job EXCEPT !.status = "succeeded",
                !.completed_at = Clock,
                !.stage = "completed",
                !.percent_complete = Percent(100, 1),
                !.error_message = NoValue]

\* completed_job = replace(job, status=SUCCEEDED, completed_at=clock(), ...)
CompletedJob(job, document_ids) ==
    [job EXCEPT !.status = "succeeded",
                !.completed_at = Clock,
                !.documents_processed = Len(document_ids),
                !.stage = "completed",
                !.percent_complete = Percent(100, 1),
                !.error_message = NoValue]

\* Mutant: the resumed job always starts at the recovery time.
UpdatedJobFreshStart(job, plan, checkpoint, recovery_started_at) ==
    [job EXCEPT !.status = "running",
                !.stage = plan.resume_stage,
                !.started_at = recovery_started_at,
                !.completed_at = NoValue,
                !.percent_complete = plan.percent_complete,
                !.documents_processed =
                    IF checkpoint # NoCheckpoint
                    THEN Len(checkpoint.processed_document_ids)
                    ELSE job.documents_processed,
                !.error_message = NoValue]

\* resume_started_at = job.started_at or plan.recovery_started_at;
\* updated_job = replace(job, status=RUNNING, ...); with a checkpoint,
\* documents_processed = len(checkpoint.processed_document_ids)
UpdatedJob(job, plan, checkpoint, recovery_started_at) ==
    [job EXCEPT !.status = "running",
                !.stage = plan.resume_stage,
                !.started_at = IF job.started_at # NoValue THEN job.started_at
                               ELSE recovery_started_at,
                !.completed_at = NoValue,
                !.percent_complete = plan.percent_complete,
                !.documents_processed =
                    IF checkpoint # NoCheckpoint
                    THEN Len(checkpoint.processed_document_ids)
                    ELSE job.documents_processed,
                !.error_message = NoValue]

\* resume: the (job, plan) pair, or ValueError
ResumeResult(status, stage, started_at, checkpoint, document_ids) ==
    LET job == RecoveryJob(status, stage, started_at)
        plan == IF checkpoint # NoCheckpoint
                THEN PlanResumeResult(status, stage, checkpoint, document_ids)
                ELSE ResumePlan(document_ids, Percent(0, 1), ResumeStage(stage))
        recovery_started_at == Clock
    IN IF document_ids = << >> THEN ValueError
       ELSE IF plan = ValueError THEN ValueError
       ELSE IF plan.remaining_document_ids = << >>
       THEN [job |-> CompletedJob(job, document_ids), plan |-> plan,
             recovery_started_at |-> recovery_started_at]
       ELSE [job |-> UpdatedJob(job, plan, checkpoint, recovery_started_at),
             plan |-> plan, recovery_started_at |-> recovery_started_at]

\* A recovery call: the function, its arguments, what came back, and the
\* arguments as the call left them.
RecoveryCall(called, status, stage, started_at, processed, oneShot, checkpoint, document_ids, result) ==
    [called |-> called, status |-> status, stage |-> stage, started_at |-> started_at,
     processed |-> processed, oneShot |-> oneShot, checkpoint |-> checkpoint,
     document_ids |-> document_ids, result |-> result,
     after |-> InputsAfter(called, RecoveryJob(status, stage, started_at), processed,
                           oneShot, checkpoint, document_ids)]

RecordProgress(status, processed, oneShot, document_ids) ==
    /\ recovery.called = "none"
    /\ recovery' = RecoveryCall("record_progress", status, NoValue, NoValue, processed,
                                oneShot, NoCheckpoint, document_ids,
                                RecordProgressResult(status, processed, oneShot,
                                                     document_ids))
    /\ UNCHANGED <<connVars, catalog, config, streams, loopReady, producer,
                   guardResult, orchVars, codec, svcVars>>

PlanResume(status, stage, checkpoint, document_ids) ==
    /\ recovery.called = "none"
    /\ recovery' = RecoveryCall("plan_resume", status, stage, NoValue, {}, FALSE,
                                checkpoint, document_ids,
                                PlanResumeResult(status, stage, checkpoint,
                                                 document_ids))
    /\ UNCHANGED <<connVars, catalog, config, streams, loopReady, producer,
                   guardResult, orchVars, codec, svcVars>>

Resume(status, stage, started_at, checkpoint, document_ids) ==
    /\ recovery.called = "none"
    /\ recovery' = RecoveryCall("resume", status, stage, started_at, {}, FALSE,
                                checkpoint, document_ids,
                                ResumeResult(status, stage, started_at, checkpoint,
                                             document_ids))
    /\ UNCHANGED <<connVars, catalog, config, streams, loopReady, producer,
                   guardResult, orchVars, codec, svcVars>>

\* The checkpoints record_progress can return, and no checkpoint at all.
Checkpoints ==
    {NoCheckpoint}
    \cup { RecordProgressResult("running", processed, FALSE, document_ids) :
             processed \in SUBSET DocIds, document_ids \in DocSeqs }

RecoveryInit ==
    /\ NoConnections
    /\ catalog \in {SourceCatalog(0, << >>, << >>)}
    /\ config \in {[healthPort |-> FALSE, reindexService |-> FALSE]}
    /\ streams = << >>
    /\ loopReady = << >>
    /\ producer = NoProducer
    /\ guardResult = "unchecked"
    /\ NoReindex
    /\ recovery = NoRecovery
    /\ codec = NoCodec
    /\ NoServices

\* One call per behaviour, with any arguments of the bounded input space.
RecoveryNext ==
    /\ recovery.called = "none"
    /\ \/ \E status \in JobStatuses, processed \in SUBSET DocIds, oneShot \in BOOLEAN,
             document_ids \in DocSeqs :
             RecordProgress(status, processed, oneShot, document_ids)
       \/ \E status \in JobStatuses, stage \in Stages, checkpoint \in Checkpoints,
             document_ids \in DocSeqs :
             PlanResume(status, stage, checkpoint, document_ids)
       \/ \E status \in JobStatuses, stage \in Stages, started_at \in StartedAts,
             checkpoint \in Checkpoints, document_ids \in DocSeqs :
             Resume(status, stage, started_at, checkpoint, document_ids)

SpecRecovery == RecoveryInit /\ [][RecoveryNext]_vars

-----------------------------------------------------------------------------
(* Properties of job recovery                                              *)

\* C19: record_progress on a RUNNING job, given the processed ids as a set,
\* returns a checkpoint whose processed_document_ids are the ids of
\* ordered_ids that are in the set, in ordered_ids order, with
\* percent_complete = count / len(ordered_ids) * 100, or 0 and no ids when
\* ordered_ids is empty; on any other job it raises ValueError.
C19_RecordProgressCheckpoint ==
    (recovery.called = "record_progress" /\ ~recovery.oneShot) =>
        IF recovery.status = "running"
        THEN /\ recovery.result # ValueError
             /\ recovery.result.processed_document_ids =
                    SelectSeq(recovery.document_ids,
                              LAMBDA d : d \in recovery.processed)
             /\ recovery.document_ids = << >> =>
                    /\ recovery.result.processed_document_ids = << >>
                    /\ recovery.result.percent_complete.num = 0
             /\ recovery.document_ids # << >> =>
                    recovery.result.percent_complete.num * Len(recovery.document_ids)
                      = Len(recovery.result.processed_document_ids) * 100
                          * recovery.result.percent_complete.den
        ELSE recovery.result = ValueError

C19_Witness ==
    /\ recovery.called = "record_progress"
    /\ ~recovery.oneShot
    /\ recovery.status = "running"
    /\ recovery.document_ids = <<"C", "A">>
    /\ recovery.processed = {"A", "B", "C"}
    /\ recovery.result.processed_document_ids = <<"C", "A">>
    /\ recovery.result.percent_complete = Percent(200, 2)

\* C20: plan_resume with a checkpoint and a RUNNING or FAILED job returns a
\* plan whose remaining_document_ids are the ids of ordered_ids not among the
\* checkpoint's processed ids, in ordered_ids order, whose percent_complete
\* is the checkpoint's, and whose resume_stage is "resuming_<stage>", or
\* "resuming_ingestion" for a job without a stage; without a checkpoint or
\* with any other status it raises ValueError.
C20_PlanResumePlan ==
    recovery.called = "plan_resume" =>
        IF recovery.checkpoint # NoCheckpoint /\ recovery.status \in {"running", "failed"}
        THEN /\ recovery.result # ValueError
             /\ recovery.result.remaining_document_ids =
                    SelectSeq(recovery.document_ids,
                              LAMBDA d : \A i \in DOMAIN recovery.checkpoint.processed_document_ids :
                                            recovery.checkpoint.processed_document_ids[i] # d)
             /\ recovery.result.percent_complete = recovery.checkpoint.percent_complete
             /\ recovery.result.resume_stage =
                    (IF recovery.stage \in {NoValue, ""} THEN "resuming_ingestion"
                     ELSE "resuming_" \o recovery.stage)
        ELSE recovery.result = ValueError

C20_Witness ==
    /\ recovery.called = "plan_resume"
    /\ recovery.status = "failed"
    /\ recovery.stage = NoValue
    /\ recovery.checkpoint = Checkpoint(<<"A">>, Percent(100, 2))
    /\ recovery.document_ids = <<"B", "A">>
    /\ recovery.result = ResumePlan(<<"B">>, Percent(100, 2), "resuming_ingestion")


-----------------------------------------------------------------------------
(* Properties of resume                                                    *)

\* a resume call on a job that can be resumed, with a workload
ResumableCall ==
    /\ recovery.called = "resume"
    /\ recovery.status \in {"running", "failed"}
    /\ recovery.document_ids # << >>

\* what the checkpoint of the call leaves to do
RemainingOfCall ==
    SelectSeq(recovery.document_ids,
              LAMBDA d : \A i \in DOMAIN recovery.checkpoint.processed_document_ids :
                            recovery.checkpoint.processed_document_ids[i] # d)

\* C21: resume without a checkpoint restarts the job fully: the returned job
\* is RUNNING with percent_complete 0 and a started_at taken at recovery
\* time, and the plan's remaining ids are all of ordered_ids in order.
C21_ResumeWithoutCheckpointRestarts ==
    (ResumableCall /\ recovery.checkpoint = NoCheckpoint) =>
        /\ recovery.result # ValueError
        /\ recovery.result.job.status = "running"
        /\ recovery.result.job.percent_complete.num = 0
        /\ recovery.result.job.started_at = Clock
        /\ recovery.result.plan.remaining_document_ids = recovery.document_ids

\* C22: resume with a checkpoint that leaves no remaining ids returns a
\* SUCCEEDED job with stage "completed", percent_complete 100, completed_at
\* set and documents_processed = len(ordered_ids), and a plan with no
\* remaining ids.
C22_ResumeNothingRemainingSucceeds ==
    (ResumableCall /\ recovery.checkpoint # NoCheckpoint /\ RemainingOfCall = << >>) =>
        /\ recovery.result # ValueError
        /\ recovery.result.job.status = "succeeded"
        /\ recovery.result.job.stage = "completed"
        /\ recovery.result.job.percent_complete.num
             = 100 * recovery.result.job.percent_complete.den
        /\ recovery.result.job.completed_at = Clock
        /\ recovery.result.job.documents_processed = Len(recovery.document_ids)
        /\ recovery.result.plan.remaining_document_ids = << >>

C22_Witness ==
    /\ ResumableCall
    /\ recovery.status = "failed"
    /\ recovery.checkpoint = Checkpoint(<<"B", "A">>, Percent(200, 2))
    /\ recovery.document_ids = <<"B", "A">>
    /\ recovery.result.job.status = "succeeded"
    /\ recovery.result.job.documents_processed = 2

\* what C23 says of the resumed job apart from its started_at
ResumedJobAndPlan ==
    /\ recovery.result # ValueError
    /\ recovery.result.job.status = "running"
    /\ recovery.result.job.stage = recovery.result.plan.resume_stage
    /\ recovery.result.job.percent_complete = recovery.checkpoint.percent_complete
    /\ recovery.result.job.documents_processed
         = Len(recovery.checkpoint.processed_document_ids)
    /\ recovery.result.job.completed_at = NoValue
    /\ recovery.result.job.error_message = NoValue
    /\ recovery.result.plan.remaining_document_ids = RemainingOfCall
    /\ recovery.result.plan.percent_complete = recovery.checkpoint.percent_complete
    /\ recovery.result.plan.resume_stage =
           (IF recovery.stage \in {NoValue, ""} THEN "resuming_ingestion"
            ELSE "resuming_" \o recovery.stage)

\* C23 as stated: resume with a checkpoint that leaves at least one
\* remaining id returns a RUNNING job whose started_at is the original
\* job's, with stage = the plan's resume_stage, percent_complete = the
\* checkpoint's, documents_processed = the number of ids in the checkpoint,
\* completed_at and error_message cleared, paired with the computed plan.
C23_ResumeKeepsStartedAt ==
    (ResumableCall /\ recovery.checkpoint # NoCheckpoint /\ RemainingOfCall # << >>) =>
        /\ ResumedJobAndPlan
        /\ recovery.result.job.started_at = recovery.started_at

\* C23, amended: the same, with the started_at of the returned job being the
\* original job's when it has one and the recovery time when it has none.
C23_ResumeWithRemainingContinues ==
    (ResumableCall /\ recovery.checkpoint # NoCheckpoint /\ RemainingOfCall # << >>) =>
        /\ ResumedJobAndPlan
        /\ recovery.result.job.started_at =
               (IF recovery.started_at # NoValue THEN recovery.started_at ELSE Clock)

C23_Witness ==
    /\ ResumableCall
    /\ recovery.status = "failed"
    /\ recovery.stage = "vectorizing"
    /\ recovery.started_at = "earlier"
    /\ recovery.checkpoint = Checkpoint(<<"A">>, Percent(100, 2))
    /\ recovery.document_ids = <<"A", "B">>
    /\ recovery.result.job.status = "running"
    /\ recovery.result.job.started_at = "earlier"
    /\ recovery.result.job.stage = "resuming_vectorizing"
    /\ recovery.result.job.documents_processed = 1
    /\ recovery.result.job.error_message = NoValue
    /\ recovery.result.plan.remaining_document_ids = <<"B">>

\* C24: resume raises ValueError, and returns no job, when ordered_ids is
\* empty or the job's status is neither RUNNING nor FAILED, with or without
\* a checkpoint; no SUCCEEDED or CANCELLED job comes back RUNNING.
C24_ResumeRejectsUnresumable ==
    recovery.called = "resume" =>
        /\ (recovery.document_ids = << >>
              \/ recovery.status \notin {"running", "failed"}) =>
               recovery.result = ValueError
        /\ (recovery.status \in {"succeeded", "cancelled"}
              /\ recovery.result # ValueError) =>
               recovery.result.job.status # "running"

\* the arguments of the call as they were passed
InputsBefore ==
    [job |-> RecoveryJob(recovery.status, recovery.stage, recovery.started_at),
     processed |-> recovery.processed,
     exhausted |-> FALSE,
     checkpoint |-> recovery.checkpoint,
     document_ids |-> recovery.document_ids]

-----------------------------------------------------------------------------
(* Properties of error propagation                                         *)

\* the response codes of the source that end in _FAILED
FailedCodes == {"QUERY_FAILED"}

\* A request for one of the operations that answer with a single frame.
IsUnaryRequest(w) ==
    /\ IsRequest(w)
    /\ w.frame.path \in {"/v1/query", "/v1/sources", "/v1/admin/init", "/v1/admin/health"}

\* C26: for the Router operations query, list-sources, admin-init and
\* admin-health, a TransportError raised by the operation (here the missing
\* index of the query port) reaches the client with its status and code, any
\* response of status 500 carries a code ending in _FAILED, and the
\* connection is still SERVING right after.
C26_RouterErrorsReachClient ==
    \A c \in DOMAIN cstate : \A i \in ServingPositions(c) :
        IsUnaryRequest(inp[c][i]) =>
            /\ Cardinality(FramesFor(c, i)) = 1
            /\ (IsQueryRequest(inp[c][i]) /\ IndexMissing(catalog)) =>
                   AnsweredWith(c, i, 409, "INDEX_MISSING")
            /\ \A k \in FramesFor(c, i) :
                   out[c][k].status = 500 => out[c][k].code \in FailedCodes
            /\ i = Len(inp[c]) => cstate[c] = "SERVING"


-----------------------------------------------------------------------------
(* Properties of the framing codec                                         *)

\* The frame attempts C27 lists: end of stream before a length line, a
\* length line that is no non-negative integer, fewer payload bytes than
\* declared, a byte other than newline after the payload, invalid JSON.
IsListedReadFailure(w) ==
    \/ w.lengthLine = "eof"
    \/ w.lengthLine \in {"notint", "negative"}
    \/ w.lengthLine = "int" /\ w.payload = "short"
    \/ w.lengthLine = "int" /\ w.payload = "full" /\ w.trailing = "other"
    \/ w.lengthLine = "int" /\ w.payload = "full" /\ w.trailing = "newline"
         /\ w.text = "badjson"

\* C27: reading any of the listed frame attempts fails with
\* TransportProtocolError or its subclass TransportConnectionClosed, and
\* with no other exception type.
C27_ReadFailsWithProtocolError ==
    \A c \in DOMAIN cstate : \A i \in DOMAIN inp[c] :
        IsListedReadFailure(inp[c][i]) =>
            ReadFrame(inp[c][i]).kind \in {"closed", "protocol"}


-----------------------------------------------------------------------------
(* Framing codec at the byte level: _write_frame, then _read_frame         *)

\* The bytes that occur, in ASCII order.  LF, QUOTE and BSLASH name the
\* newline, the double quote and the backslash.
Alphabet ==
    <<"LF", "QUOTE", ",", "0", "1", "2", "3", "4", "5", "6", "7", "8", "9", ":",
      "BSLASH", "a", "b", "e", "n", "u", "x", "{", "}">>

CharIndex(ch) == CHOOSE i \in DOMAIN Alphabet : Alphabet[i] = ch

\* Python's order on str keys
RECURSIVE LexLess(_, _)
LexLess(a, b) ==
    IF a = << >> THEN b # << >>
    ELSE IF b = << >> THEN FALSE
    ELSE IF Head(a) = Head(b) THEN LexLess(Tail(a), Tail(b))
    ELSE CharIndex(Head(a)) < CharIndex(Head(b))

\* JSON values: a string (its characters; "e-acute" is a non-ASCII one), a
\* non-negative integer, an object (a dict: a set of <<key, value>> members
\* with distinct keys).
JsonStr(s) == [t |-> "str", s |-> s, n |-> 0, o |-> {}]
JsonInt(n) == [t |-> "int", s |-> << >>, n |-> n, o |-> {}]
JsonObject(members) == [t |-> "obj", s |-> << >>, n |-> 0, o |-> members]

DigitChars == <<"0", "1", "2", "3", "4", "5", "6", "7", "8", "9">>

IsDigit(ch) == \E d \in DOMAIN DigitChars : DigitChars[d] = ch

DigitValue(ch) == (CHOOSE d \in DOMAIN DigitChars : DigitChars[d] = ch) - 1

\* str(n) for n >= 0
RECURSIVE IntToBytes(_)
IntToBytes(n) ==
    IF n < 10 THEN <<DigitChars[n + 1]>>
    ELSE IntToBytes(n \div 10) \o <<DigitChars[(n % 10) + 1]>>

\* int(digits), left to right
RECURSIVE ParseDigits(_, _)
ParseDigits(bytes, acc) ==
    IF bytes = << >> THEN acc
    ELSE ParseDigits(Tail(bytes), acc * 10 + DigitValue(Head(bytes)))

\* json.dumps of one character of a string, ensure_ascii left at its default
JsonEscape(ch) ==
    IF ch = "QUOTE" THEN <<"BSLASH", "QUOTE">>
    ELSE IF ch = "BSLASH" THEN <<"BSLASH", "BSLASH">>
    ELSE IF ch = "LF" THEN <<"BSLASH", "n">>
    ELSE IF ch = "e-acute" THEN <<"BSLASH", "u", "0", "0", "e", "9">>
    ELSE <<ch>>

RECURSIVE JsonEscapeAll(_)
JsonEscapeAll(s) ==
    IF s = << >> THEN << >> ELSE JsonEscape(Head(s)) \o JsonEscapeAll(Tail(s))

DumpString(s) == <<"QUOTE">> \o JsonEscapeAll(s) \o <<"QUOTE">>

\* json.dumps(value, separators=(",", ":"), sort_keys=True)
RECURSIVE JsonDumps(_)
RECURSIVE DumpMembers(_)
DumpMembers(members) ==
    IF members = {} THEN << >>
    ELSE LET m == CHOOSE m \in members :
                     \A x \in members : x[1] = m[1] \/ LexLess(m[1], x[1])
             rest == members \ {m}
         IN DumpString(m[1]) \o <<":">> \o JsonDumps(m[2])
            \o (IF rest = {} THEN << >> ELSE <<",">> \o DumpMembers(rest))

JsonDumps(value) ==
    IF value.t = "str" THEN DumpString(value.s)
    ELSE IF value.t = "int" THEN IntToBytes(value.n)
    ELSE <<"{">> \o DumpMembers(value.o) \o <<"}">>

\* Mutant: the length line counts the newline sentinel as well.
WriteFrameBytesCountsSentinel(message) ==
    LET encoded == JsonDumps(message)
        header == IntToBytes(Len(encoded) + 1) \o <<"LF">>
    IN header \o encoded \o <<"LF">>

\* _write_frame: header, encoded payload, FRAME_SEPARATOR.  All bytes of
\* encoded are ASCII, so its length in bytes is its length in characters.
WriteFrameBytes(message) ==
    LET encoded == JsonDumps(message)
        header == IntToBytes(Len(encoded)) \o <<"LF">>
    IN header \o encoded \o <<"LF">>

\* What a JSON parsing step yields: the value and the text left after it.
Parsed(value, rest) == [ok |-> TRUE, value |-> value, rest |-> rest]
NotParsed == [ok |-> FALSE, value |-> JsonInt(0), rest |-> << >>]

\* the characters of a JSON string, bytes starting after the opening quote
RECURSIVE ParseString(_, _)
ParseString(bytes, acc) ==
    IF bytes = << >> THEN NotParsed
    ELSE IF Head(bytes) = "QUOTE" THEN Parsed(JsonStr(acc), Tail(bytes))
    ELSE IF Head(bytes) = "LF" THEN NotParsed
    ELSE IF Head(bytes) # "BSLASH" THEN ParseString(Tail(bytes), Append(acc, Head(bytes)))
    ELSE IF Len(bytes) < 2 THEN NotParsed
    ELSE IF bytes[2] \in {"QUOTE", "BSLASH"} THEN
        ParseString(SubSeq(bytes, 3, Len(bytes)), Append(acc, bytes[2]))
    ELSE IF bytes[2] = "n" THEN
        ParseString(SubSeq(bytes, 3, Len(bytes)), Append(acc, "LF"))
    ELSE IF bytes[2] = "u" /\ Len(bytes) >= 6
              /\ SubSeq(bytes, 3, 6) = <<"0", "0", "e", "9">> THEN
        ParseString(SubSeq(bytes, 7, Len(bytes)), Append(acc, "e-acute"))
    ELSE NotParsed

\* the longest run of digits at the start of bytes
RECURSIVE DigitPrefix(_)
DigitPrefix(bytes) ==
    IF bytes = << >> \/ ~IsDigit(Head(bytes)) THEN << >>
    ELSE <<Head(bytes)>> \o DigitPrefix(Tail(bytes))

RECURSIVE ParseValue(_)
RECURSIVE ParseMembers(_, _, _)
\* the members of an object, bytes starting after "{" (first) or after ","
ParseMembers(bytes, acc, first) ==
    IF bytes = << >> THEN NotParsed
    ELSE IF Head(bytes) = "}" THEN
        (IF first THEN Parsed(JsonObject(acc), Tail(bytes)) ELSE NotParsed)
    ELSE IF Head(bytes) # "QUOTE" THEN NotParsed
    ELSE LET k == ParseString(Tail(bytes), << >>)
         IN IF ~k.ok \/ k.rest = << >> THEN NotParsed
            ELSE IF Head(k.rest) # ":" THEN NotParsed
            ELSE LET v == ParseValue(Tail(k.rest))
                     \* a repeated key replaces the earlier member
                     members == { m \in acc : m[1] # k.value.s }
                                  \cup {<<k.value.s, v.value>>}
                 IN IF ~v.ok \/ v.rest = << >> THEN NotParsed
                    ELSE IF Head(v.rest) = "," THEN
                        ParseMembers(Tail(v.rest), members, FALSE)
                    ELSE IF Head(v.rest) = "}" THEN
                        Parsed(JsonObject(members), Tail(v.rest))
                    ELSE NotParsed

ParseValue(bytes) ==
    IF bytes = << >> THEN NotParsed
    ELSE IF Head(bytes) = "QUOTE" THEN ParseString(Tail(bytes), << >>)
    ELSE IF Head(bytes) = "{" THEN ParseMembers(Tail(bytes), {}, TRUE)
    ELSE IF IsDigit(Head(bytes)) THEN
        LET digits == DigitPrefix(bytes)
        IN Parsed(JsonInt(ParseDigits(digits, 0)),
                  SubSeq(bytes, Len(digits) + 1, Len(bytes)))
    ELSE NotParsed

JSONDecodeError == [raised |-> "JSONDecodeError"]

\* json.loads(payload.decode("utf-8"))
JsonLoads(bytes) ==
    LET r == ParseValue(bytes)
    IN IF r.ok /\ r.rest = << >> THEN r.value ELSE JSONDecodeError

\* reader.readline(): up to and including the first newline, or all there is
ReadLine(bytes) ==
    IF \E i \in DOMAIN bytes : bytes[i] = "LF"
    THEN SubSeq(bytes, 1, CHOOSE i \in DOMAIN bytes :
                              /\ bytes[i] = "LF"
                              /\ \A j \in 1..(i - 1) : bytes[j] # "LF")
    ELSE bytes

\* What _read_frame did with the unread bytes of a stream: how it ended
\* (kinds as for ReadFrame), the value returned, the bytes consumed.
Decoded(kind, frame, consumed) == [kind |-> kind, frame |-> frame, consumed |-> consumed]

\* _read_frame on the unread bytes of a stream whose writer has stopped
ReadFrameBytes(bytes) ==
    LET length_line == ReadLine(bytes)
        after == SubSeq(bytes, Len(length_line) + 1, Len(bytes))
        stripped == SelectSeq(length_line, LAMBDA ch : ch # "LF")
    IN IF length_line = << >> THEN Decoded("closed", NoValue, 0)
       ELSE IF stripped = << >> \/ \E i \in DOMAIN stripped : ~IsDigit(stripped[i])
       THEN Decoded("protocol", NoValue, Len(length_line))
       ELSE LET payload_length == ParseDigits(stripped, 0)
                payload == SubSeq(after, 1, payload_length)
            IN IF Len(after) < payload_length + 1
               THEN Decoded("other", NoValue, Len(bytes))
               ELSE IF after[payload_length + 1] # "LF"
               THEN Decoded("protocol", NoValue, Len(length_line) + payload_length + 1)
               ELSE IF JsonLoads(payload) = JSONDecodeError
               THEN Decoded("protocol", NoValue, Len(length_line) + payload_length + 1)
               ELSE Decoded("frame", JsonLoads(payload),
                            Len(length_line) + payload_length + 1)

\* The frames written: JSON objects with string keys.
CodecFrames ==
    { JsonObject({}),
      JsonObject({<<(<<"b">>), JsonInt(12)>>, <<(<<"a", "b">>), JsonStr(<<"x">>)>>}),
      JsonObject({<<(<<"a">>), JsonStr(<<"LF", "QUOTE", "1">>)>>}),
      JsonObject({<<(<<"a">>), JsonStr(<<"e-acute", "BSLASH">>)>>, <<(<<"n">>), JsonInt(0)>>}),
      JsonObject({<<(<<"b">>), JsonObject({<<(<<"a">>), JsonInt(7)>>})>>}) }

\* _write_frame(writer, message): the bytes are appended to the stream
WriteFrame(message) ==
    /\ Len(codec.written) < MaxFrames
    /\ codec' = [codec EXCEPT !.stream = @ \o WriteFrameBytes(message),
                              !.written = Append(@, message)]
    /\ UNCHANGED <<connVars, catalog, config, streams, loopReady, producer,
                   guardResult, orchVars, recovery, svcVars>>

\* _read_frame(reader) once there are unread bytes; every frame is on the
\* stream whole, since a write is one step
ReadFrameFromStream ==
    /\ codec.pos < Len(codec.stream)
    /\ IF codec.received = << >> THEN TRUE
       ELSE codec.received[Len(codec.received)].kind = "frame"
    /\ LET r == ReadFrameBytes(SubSeq(codec.stream, codec.pos + 1, Len(codec.stream)))
       IN codec' = [codec EXCEPT !.received = Append(@, r),
                                 !.pos = @ + r.consumed]
    /\ UNCHANGED <<connVars, catalog, config, streams, loopReady, producer,
                   guardResult, orchVars, recovery, svcVars>>

CodecInit ==
    /\ NoConnections
    /\ catalog \in {SourceCatalog(0, << >>, << >>)}
    /\ config \in {[healthPort |-> FALSE, reindexService |-> FALSE]}
    /\ streams = << >>
    /\ loopReady = << >>
    /\ producer = NoProducer
    /\ guardResult = "unchecked"
    /\ NoReindex
    /\ recovery = NoRecovery
    /\ codec = NoCodec
    /\ NoServices

CodecNext ==
    \/ \E message \in CodecFrames : WriteFrame(message)
    \/ ReadFrameFromStream

SpecCodec == CodecInit /\ [][CodecNext]_vars

\* the bytes of the first k frames written
RECURSIVE BytesOfFirst(_)
BytesOfFirst(k) ==
    IF k = 0 THEN 0
    ELSE BytesOfFirst(k - 1) + Len(WriteFrameBytes(codec.written[k]))

\* C28: every read returns the frame written at the same position, equal to
\* it, and consumes exactly the bytes that frame was written as, so the
\* frames read are a prefix of the frames written and once as many were
\* read as were written the stream is used up.
C28_WriteThenReadRoundTrip ==
    /\ Len(codec.received) <= Len(codec.written)
    /\ \A i \in DOMAIN codec.received :
           /\ i \in DOMAIN codec.written
           /\ codec.received[i].kind = "frame"
           /\ codec.received[i].frame = codec.written[i]
    /\ Len(codec.received) <= Len(codec.written) =>
           codec.pos = BytesOfFirst(Len(codec.received))
    /\ Len(codec.received) = Len(codec.written) => codec.pos = Len(codec.stream)

C28_Witness ==
    /\ Len(codec.written) = 3
    /\ codec.written[1] = JsonObject({<<(<<"a">>), JsonStr(<<"LF", "QUOTE", "1">>)>>})
    /\ codec.written[2] = JsonObject({})
    /\ codec.written[3] = JsonObject({<<(<<"b">>), JsonInt(12)>>, <<(<<"a", "b">>), JsonStr(<<"x">>)>>})
    /\ Len(codec.received) = 3
    /\ codec.received[3].frame = codec.written[3]
    /\ codec.pos = Len(codec.stream)
    /\ SubSeq(codec.stream, 1, 3) = <<"1", "3", "LF">>


-----------------------------------------------------------------------------
(* Properties of connections and reindex runs                              *)

\* C29: when the client of a reindex request has disconnected, the run
\* scheduled for the request still ends with a terminal job status: once the
\* executor task is over and the loop has no callback left for the stream,
\* the undrained stream holds a succeeded or failed snapshot.
C29_DisconnectDoesNotStopRun ==
    \A j \in DOMAIN streams :
        ( /\ streams[j].exec \notin {"none", "scheduled"}
          /\ cstate[streams[j].conn] = "CLOSED"
          /\ streams[j].delivered = << >>
          /\ PendingFor(j) = {} ) =>
            HoldsTerminal(streams[j].queue)


-----------------------------------------------------------------------------
(* Two connections on one event loop                                       *)

\* asyncio.start_unix_server runs _handle_connection as one task per
\* accepted connection, all on the event loop's single thread.  A task gives
\* the thread up only at an await (reading a frame, draining a write);
\* handlers.dispatch(path=path, body=body) is a plain call, so from the frame
\* being read to dispatch returning the thread stays with that task.
PairConnIds == {"c1", "c2"}

PairWire ==
    { WellFormed(Obj("handshake", PROTOCOL_ID, 1, "h1", NoValue, EmptyBody)),
      WellFormed(Obj("handshake", PROTOCOL_ID, 2, NoValue, NoValue, EmptyBody)),
      WellFormed(Obj("request", NoValue, 0, "r1", "/v1/query", Body(TRUE, TRUE, NoValue))),
      WellFormed(Obj("request", NoValue, 0, "r2", "/v1/sources", EmptyBody)),
      Wire("eof", "none", "none", "none", NonObject),
      Wire("notint", "none", "none", "none", NonObject),
      Wire("negative", "none", "none", "none", NonObject) }

\* no task is inside handlers.dispatch
LoopFree == \A d \in DOMAIN cstate : cstate[d] # "DISPATCHING"

\* the frame is handed to the Router by the serving loop
IsDispatched(w, fallback, i, cat, cfg) ==
    ServeOutcome(w, fallback, i, cat, cfg, FALSE).outcome.kind # "none"

PairHandshake(c, w) ==
    /\ LoopFree
    /\ Handshake(c, w)

\* a pass of the serving loop that does not reach the Router
PairServe(c, w) ==
    /\ LoopFree
    /\ ~IsDispatched(w, FallbackId(c), Len(inp[c]) + 1, catalog, config)
    /\ Serve(c, w, FALSE)

\* the serving loop of c reads a request and calls handlers.dispatch
ServeBegin(c, w) ==
    /\ LoopFree
    /\ cstate[c] = "SERVING"
    /\ Len(inp[c]) < MaxFrames
    /\ IsDispatched(w, FallbackId(c), Len(inp[c]) + 1, catalog, config)
    /\ inp' = [inp EXCEPT ![c] = Append(@, w)]
    /\ cstate' = [cstate EXCEPT ![c] = "DISPATCHING"]
    /\ UNCHANGED <<out, closes, crashed, dispatched, catalog, config, streams,
                   loopReady, producer, guardResult, orchVars, recovery, codec, svcVars>>

\* handlers.dispatch returns or raises and the response frame is written
ServeEnd(c, fault) ==
    /\ cstate[c] = "DISPATCHING"
    /\ LET i == Len(inp[c])
           s == ServeOutcome(inp[c][i], FallbackId(c), i, catalog, config, fault)
       IN /\ out' = [out EXCEPT ![c] = @ \o s.frames]
          /\ cstate' = [cstate EXCEPT ![c] = s.next]
          /\ dispatched' = [dispatched EXCEPT ![c] = Append(@, i)]
    /\ UNCHANGED <<inp, closes, crashed, catalog, config, streams, loopReady,
                   producer, guardResult, orchVars, recovery, codec, svcVars>>

PairInit ==
    /\ cstate = [c \in PairConnIds |-> "AWAIT_HANDSHAKE"]
    /\ inp = [c \in PairConnIds |-> << >>]
    /\ out = [c \in PairConnIds |-> << >>]
    /\ closes = [c \in PairConnIds |-> 0]
    /\ crashed = [c \in PairConnIds |-> FALSE]
    /\ dispatched = [c \in PairConnIds |-> << >>]
    /\ catalog \in { cat \in ServingCatalogs : cat.version = 1 /\ cat.snapshots # << >> }
    /\ config \in {[healthPort |-> FALSE, reindexService |-> FALSE]}
    /\ streams = << >>
    /\ loopReady = << >>
    /\ producer = NoProducer
    /\ guardResult = "unchecked"
    /\ NoReindex
    /\ recovery = NoRecovery
    /\ codec = NoCodec
    /\ NoServices

PairNext ==
    \/ \E c \in DOMAIN cstate, w \in PairWire : PairHandshake(c, w)
    \/ \E c \in DOMAIN cstate, w \in PairWire : PairServe(c, w)
    \/ \E c \in DOMAIN cstate, w \in PairWire : ServeBegin(c, w)
    \/ \E c \in DOMAIN cstate, fault \in BOOLEAN : ServeEnd(c, fault)

SpecPair == PairInit /\ [][PairNext]_vars

\* everything the handler task of connection c owns
ConnectionOf(c) == <<cstate[c], inp[c], out[c], closes[c], crashed[c], dispatched[c]>>

\* A step changes the state and the frames of one connection at most.
StepsTouchOneConnection ==
    [][\A c, d \in DOMAIN cstate :
          (c # d /\ ConnectionOf(c)' # ConnectionOf(c)) =>
              ConnectionOf(d)' = ConnectionOf(d)]_vars

\* C30: whatever the other connections are doing, a connection that awaits
\* its handshake can have it read and answered, and a connection that is
\* being served can have its next frame read.
C30_ConnectionsProgressIndependently ==
    \A c \in DOMAIN cstate :
        /\ cstate[c] = "AWAIT_HANDSHAKE" =>
               ENABLED (\E w \in PairWire : PairHandshake(c, w))
        /\ (cstate[c] = "SERVING" /\ Len(inp[c]) < MaxFrames) =>
               ENABLED (\E w \in PairWire : PairServe(c, w) \/ ServeBegin(c, w))


-----------------------------------------------------------------------------
(* Properties of the handshake                                             *)

IsValidHandshake(w) ==
    /\ IsObjectFrame(w)
    /\ w.frame.type = "handshake"
    /\ w.frame.protocol = "rag-cli-ipc"
    /\ w.frame.version = 1

\* positions in out[c] of the handshake acks
AckPositions(c) == { k \in DOMAIN out[c] : out[c][k].type = "handshake_ack" }

\* C31: a first frame that is a handshake with protocol "rag-cli-ipc" and
\* version 1 is answered with exactly one ack frame {handshake_ack,
\* rag-cli-ipc, 1, rag-backend}, written before any response frame; a
\* connection is SERVING, or has had a request dispatched, only after its ack
\* was written, and no connection is sent a second ack.
C31_AckBeforeServing ==
    \A c \in DOMAIN cstate :
        /\ (Len(inp[c]) >= 1 /\ IsValidHandshake(inp[c][1])) =>
               /\ AckPositions(c) = {1}
               /\ out[c][1].protocol = "rag-cli-ipc"
               /\ out[c][1].version = 1
               /\ out[c][1].server = "rag-backend"
               /\ out[c][1].for = 1
        /\ (cstate[c] = "SERVING" \/ dispatched[c] # << >>) => AckPositions(c) = {1}
        /\ \A k \in DOMAIN dispatched[c] : dispatched[c][k] > 1
        /\ Cardinality(AckPositions(c)) <= 1
        /\ \A k \in AckPositions(c) : out[c][k].for = 1

C31_Witness ==
    \E c \in DOMAIN cstate :
        /\ Len(inp[c]) = 3
        /\ IsValidHandshake(inp[c][1])
        /\ IsQueryRequest(inp[c][2])
        /\ inp[c][3].frame.type = "handshake"
        /\ dispatched[c] = <<2>>
        /\ AckPositions(c) = {1}
        /\ Len(out[c]) = 3
        /\ cstate[c] = "SERVING"


-----------------------------------------------------------------------------
(* Properties of reindex progress                                          *)

\* a/b <= c/d for fractions with positive denominators
PercentLeq(p, q) == p.num * q.den <= q.num * p.den

\* C32: the progress snapshot emitted after the k-th of N active sources
\* has percent_complete = k/N*100; along the snapshots of a run neither
\* percent_complete nor documents_processed decreases; a RUNNING snapshot
\* shows 100 percent only after the last active source.
C32_ProgressPercentMonotonic ==
    \A r \in DOMAIN runs :
        LET calls == runs[r].calls
            N == Len(ActiveSources(runs[r].loaded))
        IN /\ \A i \in DOMAIN calls :
                 (calls[i].hook = "on_progress" /\ i >= 2) =>
                     /\ N > 0
                     /\ calls[i].job.percent_complete.num * N
                          = (i - 1) * 100 * calls[i].job.percent_complete.den
           /\ \A i \in DOMAIN calls : \A j \in DOMAIN calls :
                 i < j =>
                     /\ PercentLeq(calls[i].job.percent_complete,
                                   calls[j].job.percent_complete)
                     /\ calls[i].job.documents_processed
                          <= calls[j].job.documents_processed
           /\ \A i \in DOMAIN calls :
                 ( /\ calls[i].job.status = "running"
                   /\ calls[i].job.percent_complete.num
                        = 100 * calls[i].job.percent_complete.den ) =>
                     i = N + 1


\* C33: a source whose status is not ACTIVE is in the catalog a reindex
\* run persists exactly as it was loaded; the run calls the checksum
\* calculator once per active source only and the chunk builder never for
\* the inactive one, passes no progress snapshot for it to on_progress and
\* writes no snapshot entry for it.
C33_InactiveSourcesPassThrough ==
    \A i \in DOMAIN saved :
        saved[i].by # 0 =>
            LET run == runs[saved[i].by]
                loaded == saved[i].loaded
            IN /\ Len(run.currents) = Len(ActiveSources(loaded))
               /\ \A k \in DOMAIN loaded.sources :
                     loaded.sources[k].status # "active" =>
                         LET record == loaded.sources[k]
                         IN /\ \E m \in DOMAIN saved[i].catalog.sources :
                                   saved[i].catalog.sources[m] = record
                            /\ \A m \in DOMAIN saved[i].catalog.snapshots :
                                   saved[i].catalog.snapshots[m].alias # record.alias
                            /\ \A m \in DOMAIN run.builderCalls :
                                   run.builderCalls[m] # record.alias
                            /\ \A m \in DOMAIN run.calls :
                                   run.calls[m].job.stage \notin
                                       {"ingesting:" \o record.alias,
                                        "skipping:" \o record.alias}

C33_Witness ==
    \E i \in DOMAIN saved :
        /\ saved[i].by # 0
        /\ Len(saved[i].loaded.sources) = 2
        /\ saved[i].loaded.sources[1] = SourceRecord("b", "quarantined", "x")
        /\ saved[i].loaded.sources[2] = SourceRecord("a", "active", "x")
        /\ saved[i].catalog.sources =
               <<SourceRecord("a", "active", "y"), SourceRecord("b", "quarantined", "x")>>
        /\ saved[i].catalog.snapshots = <<SourceSnapshot("a", "y")>>
        /\ runs[saved[i].by].builderCalls = <<"a">>

-----------------------------------------------------------------------------
\* TransportHandlers shutdown hooks (handlers/router.py)

MaxHooks == 3

MaxCloseCalls == 2

ShutdownHooks == {"h1", "h2", "h3"}

\* the hooks whose call raises an Exception
RaisingHooks == {"h1", "h3"}

\* mutant: the loop ends at the first hook that raises
RECURSIVE RunHooksStopsAtRaise(_)
RunHooksStopsAtRaise(hooks) ==
    IF hooks = << >> THEN << >>
    ELSE IF Head(hooks) \in RaisingHooks THEN <<Head(hooks)>>
    ELSE <<Head(hooks)>> \o RunHooksStopsAtRaise(Tail(hooks))

\* the hooks called by the loop of close(), in call order: the except clause
\* logs a raising hook and the loop goes on
RECURSIVE RunHooks(_)
RunHooks(hooks) ==
    IF hooks = << >> THEN << >>
    ELSE <<Head(hooks)>> \o RunHooks(Tail(hooks))

\* register_shutdown_hook(hook): None is ignored
RegisterShutdownHook(hook) ==
    /\ Len(handlers.hooks) < MaxHooks
    /\ handlers' = IF hook = NoValue THEN handlers
                   ELSE [handlers EXCEPT !.hooks = Append(@, hook)]
    /\ UNCHANGED <<connVars, catalog, config, streams, loopReady, producer,
                   guardResult, orchVars, recovery, codec, ingestion>>

\* close()
Close ==
    /\ handlers.closeCalls < MaxCloseCalls
    /\ handlers' = IF handlers.closed
                   THEN [handlers EXCEPT !.closeCalls = @ + 1]
                   ELSE [handlers EXCEPT !.closeCalls = @ + 1,
                                         !.ran = @ \o RunHooks(handlers.hooks),
                                         !.closed = TRUE]
    /\ UNCHANGED <<connVars, catalog, config, streams, loopReady, producer,
                   guardResult, orchVars, recovery, codec, ingestion>>

\* nothing but the service objects under study is in use
IdleBackend ==
    /\ NoConnections
    /\ catalog \in {SourceCatalog(0, << >>, << >>)}
    /\ config \in {[healthPort |-> FALSE, reindexService |-> FALSE]}
    /\ streams = << >>
    /\ loopReady = << >>
    /\ producer = NoProducer
    /\ guardResult = "unchecked"
    /\ NoReindex
    /\ recovery = NoRecovery
    /\ codec = NoCodec

HandlersInit ==
    /\ IdleBackend
    /\ NoServices

HandlersNext ==
    \/ \E hook \in ShutdownHooks \cup {NoValue} : RegisterShutdownHook(hook)
    \/ Close

SpecHandlers == HandlersInit /\ [][HandlersNext]_vars

\* C34: the first close() runs every registered hook once, in registration
\* order, whether or not an earlier hook raised; a later close() runs no hook;
\* registering runs no hook
C34_CloseRunsHooksOnce ==
    [][IF handlers'.closeCalls = handlers.closeCalls
       THEN handlers'.ran = handlers.ran
       ELSE IF handlers.closeCalls = 0
            THEN handlers'.ran = handlers.hooks
            ELSE handlers'.ran = handlers.ran]_vars

\* closed twice with three hooks registered, two of them raising, one of them
\* first, and a hook registered between the two calls
C34_Witness ==
    /\ handlers.closeCalls = 2
    /\ handlers.hooks = <<"h1", "h2", "h3">>
    /\ handlers.ran = <<"h1", "h2">>

-----------------------------------------------------------------------------
\* SourceService ingestion transitions (domain/source_service.py)

MaxTransitions == 3

\* the documents_processed arguments tried: negative, zero, positive
DocumentCounts == {-1, 0, 2}

IngestionStages == {"preparing_index", "ingesting:docs"}

\* the job a caller holds before the first transition
HeldJob(status, started_at) ==
    [status |-> status, stage |-> NoValue, started_at |-> started_at,
     completed_at |-> NoValue, documents_processed |-> 0,
     percent_complete |-> IF status = "succeeded" THEN Percent(100, 1)
                          ELSE Percent(0, 1)]

\* mark_ingestion_running(job=, stage=)
MarkIngestionRunning(job, stage) ==
    IF job.status # "queued" THEN ValueError
    ELSE [job EXCEPT !.status = "running",
                     !.stage = stage,
                     !.started_at = IF @ = NoValue THEN Clock ELSE @,
                     !.percent_complete = Percent(0, 1)]

\* mutant: a negative document count is accepted
MarkIngestionSucceededAnyCount(job, documents_processed) ==
    IF job.status # "running" THEN ValueError
    ELSE [job EXCEPT !.status = "succeeded",
                     !.completed_at = Clock,
                     !.documents_processed = documents_processed,
                     !.stage = "completed",
                     !.percent_complete = Percent(100, 1)]

\* mark_ingestion_succeeded(job=, documents_processed=)
MarkIngestionSucceeded(job, documents_processed) ==
    IF job.status # "running" THEN ValueError
    ELSE IF documents_processed < 0 THEN ValueError
    ELSE [job EXCEPT !.status = "succeeded",
                     !.completed_at = Clock,
                     !.documents_processed = documents_processed,
                     !.stage = "completed",
                     !.percent_complete = Percent(100, 1)]

\* One call on the job the caller holds: the caller goes on with the job
\* returned, or with the job it had when the call raised.
Transition(called, argument, result) ==
    /\ ingestion.calls < MaxTransitions
    /\ ingestion' = [called |-> called,
                     argument |-> argument,
                     before |-> ingestion.job,
                     result |-> result,
                     job |-> IF result = ValueError THEN ingestion.job
                             ELSE result,
                     path |-> IF result = ValueError THEN ingestion.path
                              ELSE Append(ingestion.path, result.status),
                     calls |-> ingestion.calls + 1]
    /\ UNCHANGED <<connVars, catalog, config, streams, loopReady, producer,
                   guardResult, orchVars, recovery, codec, handlers>>

CallMarkIngestionRunning(stage) ==
    Transition("mark_ingestion_running", stage,
               MarkIngestionRunning(ingestion.job, stage))

CallMarkIngestionSucceeded(documents_processed) ==
    Transition("mark_ingestion_succeeded", documents_processed,
               MarkIngestionSucceeded(ingestion.job, documents_processed))

IngestionInit ==
    /\ IdleBackend
    /\ handlers = NoHandlers
    /\ ingestion \in {[called |-> "none", argument |-> NoValue,
                       before |-> NoValue, result |-> NoValue,
                       job |-> HeldJob(status, started_at),
                       path |-> <<status>>, calls |-> 0] :
                          status \in JobStatuses, started_at \in StartedAts}

IngestionNext ==
    \/ \E stage \in IngestionStages : CallMarkIngestionRunning(stage)
    \/ \E documents_processed \in DocumentCounts :
          CallMarkIngestionSucceeded(documents_processed)

SpecIngestion == IngestionInit /\ [][IngestionNext]_vars

\* C35: mark_ingestion_running returns a job exactly on a QUEUED job, and
\* the job is RUNNING at 0 percent; mark_ingestion_succeeded returns a job
\* exactly on a RUNNING job with a count >= 0, and the job is SUCCEEDED at 100
\* percent with stage "completed"; every other call raises ValueError; along
\* the statuses these calls give a job, RUNNING follows QUEUED, SUCCEEDED
\* follows RUNNING and nothing follows SUCCEEDED
C35_IngestionTransitions ==
    /\ ingestion.called = "mark_ingestion_running" =>
          IF ingestion.before.status = "queued"
          THEN /\ ingestion.result # ValueError
               /\ ingestion.result.status = "running"
               /\ ingestion.result.percent_complete = Percent(0, 1)
          ELSE ingestion.result = ValueError
    /\ ingestion.called = "mark_ingestion_succeeded" =>
          IF ingestion.before.status = "running" /\ ingestion.argument >= 0
          THEN /\ ingestion.result # ValueError
               /\ ingestion.result.status = "succeeded"
               /\ ingestion.result.percent_complete = Percent(100, 1)
               /\ ingestion.result.stage = "completed"
          ELSE ingestion.result = ValueError
    /\ ingestion.called # "none" =>
          \A i \in 1..Len(ingestion.path) :
             /\ (i > 1 /\ ingestion.path[i] = "running") =>
                   ingestion.path[i - 1] = "queued"
             /\ (i > 1 /\ ingestion.path[i] = "succeeded") =>
                   ingestion.path[i - 1] = "running"
             /\ ingestion.path[i] = "succeeded" => i = Len(ingestion.path)
             /\ i > 1 => ingestion.path[i] \in {"running", "succeeded"}

\* a queued job was started and completing it with a negative count was
\* refused, which left the job running
C35_Witness ==
    /\ ingestion.called = "mark_ingestion_succeeded"
    /\ ingestion.argument = -1
    /\ ingestion.result = ValueError
    /\ ingestion.path = <<"queued", "running">>
    /\ ingestion.calls = 2

-----------------------------------------------------------------------------
\* The catalog a successful run persists, seen by the consistency guard

HasActiveSource(cat) == ActiveSources(cat) # << >>

DistinctAliases(cat) == Cardinality(SourceAliases(cat)) = Len(cat.sources)

\* the save calls of runs that returned after loading a catalog with an
\* active source and no alias twice
SuccessfulSaves ==
    { i \in DOMAIN saved :
        /\ saved[i].by \in DOMAIN runs
        /\ runs[saved[i].by].outcome = "returned"
        /\ HasActiveSource(saved[i].loaded)
        /\ DistinctAliases(saved[i].loaded) }

\* C36: the catalog persisted by a successful reindex of a catalog with an
\* active source and distinct aliases passes the consistency guard: positive
\* version, snapshot aliases without duplicates and equal to the active
\* aliases, each active source's checksum equal to its snapshot's
C36_PersistedCatalogPassesGuard ==
    \A i \in SuccessfulSaves :
        LET cat == saved[i].catalog
            active == ActiveSources(cat)
        IN /\ EnsureIndexCurrent(cat) = "PASS"
           /\ cat.version > 0
           /\ Cardinality(SnapshotAliases(cat)) = Len(cat.snapshots)
           /\ SnapshotAliases(cat) = { active[j].alias : j \in DOMAIN active }
           /\ \A j \in DOMAIN active :
                 /\ active[j].checksum # NoValue
                 /\ SnapshotChecksums(cat)[active[j].alias] = active[j].checksum

\* a run returned after re-hashing two active sources, one of them changed
C36_Witness ==
    \E i \in SuccessfulSaves :
        /\ Len(ActiveSources(saved[i].catalog)) = 2
        /\ \E j \in 1..2 : ActiveSources(saved[i].catalog)[j].checksum = "y"
        /\ \E j \in 1..2 : ActiveSources(saved[i].catalog)[j].checksum = "x"

-----------------------------------------------------------------------------
\* What a failed run leaves in the catalog store

SavedBy(r) == \E i \in DOMAIN saved : saved[i].by = r

\* on_complete was handed a FAILED job, or run() raised
EndedFailed(r) ==
    \/ runs[r].outcome = "raised"
    \/ \E c \in DOMAIN runs[r].calls :
          /\ runs[r].calls[c].hook = "on_complete"
          /\ runs[r].calls[c].job.status = "failed"

\* C37: a run that ends FAILED (on_complete receives a FAILED job, or run()
\* raises) has saved no catalog, and a finished run that saved a catalog
\* returned a SUCCEEDED job
C37_FailedRunSavesNothing ==
    \A r \in DOMAIN runs :
        /\ EndedFailed(r) => ~SavedBy(r)
        /\ (SavedBy(r) /\ runs[r].pc = "done") =>
              /\ runs[r].outcome = "returned"
              /\ runs[r].returned.status = "succeeded"

-----------------------------------------------------------------------------
\* Taking a source out of ACTIVE: remove_source, update_source with a status,
\* SourceQuarantineManager.quarantine

NonActiveStatuses == {"quarantined", "error"}

\* update_source with request.status set and no new location: the record
\* keeps its checksum, and the snapshot of the alias is rewritten with it, or
\* appended when there is none.
UpdateSourceStatus(alias, status) ==
    /\ alias \in SourceAliases(catalog)
    /\ LET current == CHOOSE rec \in SeqRange(catalog.sources) : rec.alias = alias
           updated_record == SourceRecord(alias, status, current.checksum)
           snapshot_checksum == IF current.checksum = NoValue THEN ""
                                ELSE current.checksum
           replaced == [i \in DOMAIN catalog.snapshots |->
                           IF catalog.snapshots[i].alias = alias
                           THEN SourceSnapshot(alias, snapshot_checksum)
                           ELSE catalog.snapshots[i]]
           updated_snapshots ==
               IF alias \in SnapshotAliases(catalog) THEN replaced
               ELSE Append(catalog.snapshots,
                           SourceSnapshot(alias, snapshot_checksum))
       IN PersistMutation("source_update", alias,
             SourceCatalog(NextVersion(catalog),
                           SortByAlias(ReplaceRecord(catalog.sources, updated_record)),
                           updated_snapshots))

\* SourceQuarantineManager.quarantine: replace(catalog, version=, updated_at=,
\* sources=) keeps catalog.snapshots, and the sources keep their order.
Quarantine(alias) ==
    /\ alias \in SourceAliases(catalog)
    /\ MutationsSaved < MaxMutations
    /\ LET record == CHOOSE rec \in SeqRange(catalog.sources) : rec.alias = alias
           updated_record == SourceRecord(alias, "quarantined", record.checksum)
           updated_catalog ==
               SourceCatalog(NextVersion(catalog),
                             ReplaceRecord(catalog.sources, updated_record),
                             catalog.snapshots)
       IN /\ catalog' = updated_catalog
          /\ saved' = Append(saved, [by |-> 0, loaded |-> catalog,
                                     catalog |-> updated_catalog])
          /\ audit' = Append(audit, [action |-> "source_quarantine",
                                     status |-> "failure", target |-> alias])
    /\ UNCHANGED <<connVars, config, streams, loopReady, producer, guardResult,
                   runs, recovery, codec, svcVars>>

\* A stored catalog whose snapshots are those of its active sources, and no
\* run in progress.
MutationsInit ==
    /\ NoConnections
    /\ catalog \in ReindexCatalogs
    /\ config \in {[healthPort |-> FALSE, reindexService |-> TRUE]}
    /\ streams = << >>
    /\ loopReady = << >>
    /\ producer = NoProducer
    /\ guardResult = "unchecked"
    /\ NoReindex
    /\ recovery = NoRecovery
    /\ codec = NoCodec
    /\ NoServices

MutationsNext ==
    \/ \E alias \in SeqRange(AliasOrder) : RemoveSource(alias)
    \/ \E alias \in SeqRange(AliasOrder), status \in NonActiveStatuses :
          UpdateSourceStatus(alias, status)
    \/ \E alias \in SeqRange(AliasOrder) : Quarantine(alias)

SpecMutations == MutationsInit /\ [][MutationsNext]_vars

ActiveAliases(cat) ==
    { cat.sources[i].alias : i \in { j \in DOMAIN cat.sources :
                                        IsActiveSource(cat.sources[j]) } }

\* C38: remove_source, update_source with a non-active status and quarantine
\* each drop the snapshot of the source they take out of ACTIVE: starting
\* from a catalog whose snapshot aliases are its ACTIVE aliases, they still
\* are after any sequence of these operations
C38_DeactivationDropsSnapshot ==
    SnapshotAliases(catalog) = ActiveAliases(catalog)

-----------------------------------------------------------------------------
\* The serving loop reading a client's byte stream after a bad frame
\* (server.py, _read_frame and the loop of _handle_connection)

\* What a client puts on the stream as one frame: its bytes, and the message
\* when the frame is well-formed.
ClientFrame(bytes, wellFormed, message) ==
    [bytes |-> bytes, wellFormed |-> wellFormed, message |-> message]

WellFormedFrames ==
    { ClientFrame(WriteFrameBytes(message), TRUE, message) :
        message \in { JsonObject({}),
                      JsonObject({<<(<<"b">>), JsonInt(12)>>}) } }

\* frames _read_frame rejects: a payload that is not JSON under a correct
\* length, a length line that is not an integer (before a payload with and
\* without digits), a length shorter than the payload
UndecodableFrames ==
    { ClientFrame(<<"1", "LF", "x", "LF">>, FALSE, NoValue),
      ClientFrame(<<"x", "LF", "{", "}", "LF">>, FALSE, NoValue),
      ClientFrame(<<"x", "LF", "2", "LF">>, FALSE, NoValue),
      ClientFrame(<<"1", "LF", "{", "}", "LF">>, FALSE, NoValue) }

\* the client writes one frame; boundaries are the offsets frames start at
ClientSend(frame) ==
    /\ Len(codec.written) < MaxFrames
    /\ codec' = [codec EXCEPT !.stream = @ \o frame.bytes,
                              !.written = Append(@, frame),
                              !.boundaries = @ \cup {Len(codec.stream)}]
    /\ UNCHANGED <<connVars, catalog, config, streams, loopReady, producer,
                   guardResult, orchVars, recovery, svcVars>>

\* One turn of the serving loop: _read_frame from the reader's position; a
\* TransportProtocolError is answered INVALID_FRAME and the loop continues, a
\* decoded frame goes on to dispatch.  A read that needs bytes not yet sent
\* waits.
ServingRead ==
    /\ codec.pos < Len(codec.stream)
    /\ LET r == ReadFrameBytes(SubSeq(codec.stream, codec.pos + 1, Len(codec.stream)))
       IN /\ r.kind \in {"frame", "protocol"}
          /\ codec' = [codec EXCEPT
                          !.received = Append(@, [kind |-> r.kind,
                                                  frame |-> r.frame,
                                                  consumed |-> r.consumed,
                                                  start |-> codec.pos,
                                                  answer |-> IF r.kind = "frame"
                                                             THEN "dispatched"
                                                             ELSE "INVALID_FRAME"]),
                          !.pos = @ + r.consumed]
    /\ UNCHANGED <<connVars, catalog, config, streams, loopReady, producer,
                   guardResult, orchVars, recovery, svcVars>>

ResyncInit ==
    /\ NoConnections
    /\ catalog \in {SourceCatalog(0, << >>, << >>)}
    /\ config \in {[healthPort |-> FALSE, reindexService |-> FALSE]}
    /\ streams = << >>
    /\ loopReady = << >>
    /\ producer = NoProducer
    /\ guardResult = "unchecked"
    /\ NoReindex
    /\ recovery = NoRecovery
    /\ codec = [stream |-> << >>, written |-> << >>, received |-> << >>,
                pos |-> 0, boundaries |-> {}]
    /\ NoServices

ResyncNext ==
    \/ \E frame \in WellFormedFrames \cup UndecodableFrames : ClientSend(frame)
    \/ ServingRead

SpecResync == ResyncInit /\ [][ResyncNext]_vars

\* the messages of the well-formed frames the client sent, in order
SentMessages ==
    LET wellFormed == SelectSeq(codec.written, LAMBDA f : f.wellFormed)
    IN [i \in DOMAIN wellFormed |-> wellFormed[i].message]

\* the frames the loop decoded, in order
DecodedMessages ==
    LET frames == SelectSeq(codec.received, LAMBDA r : r.kind = "frame")
    IN [i \in DOMAIN frames |-> frames[i].frame]

\* C39: every read of the serving loop, also after an INVALID_FRAME answer,
\* starts where a frame of the client starts, so no byte of a bad frame is
\* taken for part of a later frame; once the loop has read all the client
\* sent, the frames it decoded are the well-formed frames sent, in order
C39_ReadsResumeAtFrameBoundary ==
    /\ \A i \in DOMAIN codec.received :
          codec.received[i].start \in codec.boundaries
    /\ codec.pos = Len(codec.stream) => DecodedMessages = SentMessages

-----------------------------------------------------------------------------
\* Job ids of reindex requests: start_reindex, the accepted response and the
\* request's job stream

MaxJobs == 3

\* the job the snapshots describe, as serialize_ingestion_job sends it
JobPayload(job_id, status) == [job_id |-> job_id, status |-> status]

\* Mutant: every job gets the same id.
JobIdFactoryFixed(issued) == <<"reindex", 0>>

\* f"reindex-{uuid.uuid4().hex}": an id no earlier call has produced; issued
\* is the number of ids produced so far
JobIdFactory(issued) == <<"reindex", issued + 1>>

\* _handle_reindex for request i of connection c: a new _JobStream, then
\* start_reindex with the stream's callbacks (on_progress(job) schedules the
\* RUNNING snapshot on the loop, the run goes to the executor when a reindex
\* service is configured), then StreamingResponse(202, {"job": job}, stream).
AcceptReindex(c) ==
    LET j == Len(streams) + 1
        i == Cardinality({ k \in DOMAIN streams : streams[k].conn = c }) + 1
        job == JobPayload(JobIdFactory(Len(streams)), "running")
    IN /\ Len(streams) < MaxJobs
       /\ streams' = Append(streams,
                            [conn |-> c, for |-> i, initial_status |-> 202,
                             initial_body |-> job, queue |-> << >>,
                             exec |-> IF config.reindexService THEN "scheduled"
                                      ELSE "none",
                             delivered |-> << >>, stopped |-> FALSE])
       /\ loopReady' = EnqueueProgress(loopReady, j, job)
       /\ UNCHANGED <<connVars, catalog, config, producer, guardResult,
                      orchVars, recovery, codec, svcVars>>

JobsInit ==
    /\ NoConnections
    /\ catalog \in {SourceCatalog(0, << >>, << >>)}
    /\ config \in Configs
    /\ streams = << >>
    /\ loopReady = << >>
    /\ producer = NoProducer
    /\ guardResult = "unchecked"
    /\ NoReindex
    /\ recovery = NoRecovery
    /\ codec = NoCodec
    /\ NoServices

JobsNext ==
    \/ \E c \in PairConnIds : AcceptReindex(c)
    \/ LoopRunCallback
    \/ \E j \in DOMAIN streams : ExecutorRun(j)
    \/ \E j \in DOMAIN streams : Anext(j)

SpecJobs == JobsInit /\ [][JobsNext]_vars

\* the snapshots of stream j: returned by __anext__, queued, or scheduled
SnapshotsOn(j) ==
    streams[j].delivered \o streams[j].queue \o ReadyItems(loopReady, j)

\* C40: every snapshot on the stream of a reindex request carries the job_id
\* of the job in that request's accepted (202) response, and the jobs of two
\* requests have different ids, so no snapshot of one is on the other's stream
C40_JobIdIdentifiesStream ==
    /\ \A j \in DOMAIN streams :
          \A k \in DOMAIN SnapshotsOn(j) :
             SnapshotsOn(j)[k].job_id = streams[j].initial_body.job_id
    /\ \A j1, j2 \in DOMAIN streams :
          j1 # j2 =>
             /\ streams[j1].initial_body.job_id # streams[j2].initial_body.job_id
             /\ \A k \in DOMAIN SnapshotsOn(j2) :
                   SnapshotsOn(j2)[k].job_id # streams[j1].initial_body.job_id

\* two requests on one connection and one on another, the snapshot of the
\* first returned by __anext__, that of the second queued
C40_Witness ==
    /\ Len(streams) = 3
    /\ streams[1].conn = streams[2].conn
    /\ streams[3].conn # streams[1].conn
    /\ Len(streams[1].delivered) = 1
    /\ Len(streams[2].queue) = 1
    /\ streams[2].exec = "raised"

====
